---- MODULE Spec2Model ----
(***************************************************************************)
(* The vehicle-evaluation pipeline of the submitEvaluation endpoint:       *)
(* identity resolution, enrichment fan-out, photo forwarding, the          *)
(* generation-job poll loop and the response.  The repository holds the    *)
(* handler in several revisions; the variable rev selects the revision an  *)
(* invocation runs, and each revision-specific step is a definition of its *)
(* own, translated from that revision's code.                              *)
(***************************************************************************)
EXTENDS Integers, Sequences, FiniteSets, TLC

(* ------------------------------------------------------------------ *)
(* Bounds of the model                                                  *)
(* ------------------------------------------------------------------ *)
MaxPhotos == 3
MaxItems == 4
MaxPolls == 45

(* ------------------------------------------------------------------ *)
(* Program constants                                                    *)
(* ------------------------------------------------------------------ *)
retryDelay == 1500
timeoutLimit == 60000
maxRetries == 15
PhotoCap == 2
ResultCap == 3

(* ------------------------------------------------------------------ *)
(* Revisions of the handler                                             *)
(* ------------------------------------------------------------------ *)
\* p2a  unnamed/part_002:1-387      p2b  unnamed/part_002:389-495
\* s1   api/submitEvaluation.js:1-115    s2  :117-208    s3  :210-354
\* p1a  unnamed/part_001:1-143      p1b  unnamed/part_001:145-438
\* p3   unnamed/part_003            p4   unnamed/part_004
\* p5   unnamed/part_005            s4   api/submitEvaluation.js:356-651
Revs == {"p2a", "p2b", "s1", "s2", "s3", "s4", "p1a", "p1b", "p3", "p4", "p5"}

\* revisions that resolve a vehicle identity (VIN decode + fallbacks)
IdentityRevs == {"p2a", "s4", "p1a", "p1b", "p3", "p4", "p5"}
\* revisions whose enrichment is the four-branch Promise.all
FanoutRevs == {"p2a", "s4", "p1b", "p3", "p4", "p5"}
\* revisions whose network calls go through fetchWithTimeout
TimeoutRevs == {"p2a", "s4", "p1b", "p3"}
\* revisions whose poll loop is bounded by elapsed time / by a retry count
TimePollRevs == {"p2a", "s4", "p1b", "p3", "p4", "p5"}
RetryPollRevs == {"s3", "p1a"}
UnboundedPollRevs == {"p2b", "s1", "s2"}
\* revisions that upload the first two photos without validating them
CapOnlyRevs == {"p2b", "s2"}
\* revisions that answer a preflight request before the method check
PreflightRevs == Revs \ {"s2", "p2b"}
\* revisions that call logTraffic before they respond
AuditRevs == {"p2a", "s4", "p1a", "p1b", "p3", "p4", "p5"}
\* revisions with the link-only short-circuit
ShortCircuitRevs == {"p1b", "p3"}
\* revisions that post-process the report for the Buyer and Flipper roles
MoneyMathRevs == {"p2a"}
\* revisions whose prompt ends with the systemPrimer lines
PrimerRevs == {"p2a", "s4", "p1b", "p3", "p4", "p5"}
\* revisions that set the Access-Control-Allow-* headers on entry
CorsRevs == Revs \ {"s2", "p2b", "s4"}
\* revisions whose handler is wrapped in one try/catch, form parsing included
WrappedRevs == {"p2a", "s4"}

(* ------------------------------------------------------------------ *)
(* JavaScript values                                                    *)
(* ------------------------------------------------------------------ *)
Undef == "undefined"
CurrentYear == "currentYear"

Truthy(x) == x \notin {"", Undef}

\* a || b
Or(a, b) == IF Truthy(a) THEN a ELSE b

Min(a, b) == IF a < b THEN a ELSE b

\* a role taken from the other fields when the form has none
roleOfDefaulted(f) == IF Truthy(f.role) THEN f.role ELSE "Buyer"

\* const { .., role, .. } = fields
roleOf(f) == f.role

\* seq.slice(0, n)
Slice(s, n) == SubSeq(s, 1, Min(n, Len(s)))

Range(s) == { s[i] : i \in DOMAIN s }

(* ------------------------------------------------------------------ *)
(* Inputs: the request and the behaviour of the external collaborators  *)
(* ------------------------------------------------------------------ *)
Branches == {"recall", "retail", "auction", "vinSearch"}

\* a submitted photo: position in the submission, byte size, declared type
Photo(i, size, mime) == [idx |-> i, size |-> size, mimetype |-> mime]

PhotoKinds == { [size |-> 1024, mimetype |-> "image/jpeg"],
                [size |-> 0,    mimetype |-> "image/jpeg"],
                [size |-> 1024, mimetype |-> "application/pdf"] }

PhotoLists ==
  UNION { { [i \in 1..n |-> Photo(i, k[i].size, k[i].mimetype)] :
              k \in [1..n -> PhotoKinds] } : n \in 0..MaxPhotos }

\* the decoder's answers: a Results[0] record, or a failure of the call
DecodeOk(y, mk, md) == [kind |-> "ok", ModelYear |-> y, Make |-> mk, Model |-> md]
DecodeFail(k) == [kind |-> k, ModelYear |-> Undef, Make |-> Undef, Model |-> Undef]
DecodeFailKinds == {"neterr", "timeout", "badjson", "noresults", "emptyresults"}
DecodeOutcomes ==
  { DecodeOk("2014", "Ford", "F-150"), DecodeOk("", "", ""),
    DecodeOk("2014", "", ""), DecodeOk("", "Ford", "F-150") }
  \cup { DecodeFail(k) : k \in DecodeFailKinds }

\* the answers of a search call and of the recall registry
SearchOk(n) == [kind |-> "ok", n |-> n]
SearchFail(k) == [kind |-> k, n |-> 0]
SearchOutcomes == { SearchOk(n) : n \in {0, 2, MaxItems} }
                  \cup { SearchFail(k) : k \in {"neterr", "timeout", "badjson"} }
RecallOutcomes ==
  { [kind |-> "ok", count |-> 0, summaries |-> TRUE],
    [kind |-> "ok", count |-> 2, summaries |-> TRUE],
    [kind |-> "ok", count |-> 2, summaries |-> FALSE],
    [kind |-> "nonok", count |-> 0, summaries |-> FALSE],
    [kind |-> "neterr", count |-> 0, summaries |-> FALSE],
    [kind |-> "timeout", count |-> 0, summaries |-> FALSE],
    [kind |-> "badjson", count |-> 0, summaries |-> FALSE] }

\* pages/api/recalls.js:22-28: the registry answers 200 with
\* { count: results.length, results }; it has no summaries field
recallsHandler(found) == [kind |-> "ok", count |-> found, summaries |-> FALSE]

JobFinals == {"completed", "failed", "cancelled", "in_progress"}

\* req.method
Methods == {"POST", "OPTIONS", "GET"}

\* conditionNotes as the words it is made of: plain text, or a URL on an
\* auction host, on some other .com host, on facebook.com, on an .io host
NoteWords == {"text", "copart", "dotcom", "facebook", "dotio"}
NotesKinds ==
  { << >>, << "text" >>, << "copart" >>, << "text", "copart" >>,
    << "copart", "dotcom" >>, << "facebook" >>, << "dotio" >> }

\* what the generation service lists once the run is completed: an
\* assistant message with text, an assistant message without readable
\* text, or no assistant message at all
OutputKinds == {"text", "notext", "nomessage"}

\* a message of the thread
Message(role, text) == [role |-> role, text |-> text]

\* the money-math table the assistant wrote: its figures, whether it
\* writes thousands separators, and where the table stands in the report
\* ("numbered": under the heading "8. Money Math Table:" followed by
\* section 9, "mandated": under the heading "9. Money Math Table:"
\* followed by section 10, as the list of part_002:130-150 numbers the
\* sections, "unnumbered": the table rows without a heading,
\* "none": no table rows)
Table(lo, hi, fees, max, commas, form) ==
  [ repairsLow |-> lo, repairsHigh |-> hi, fees |-> fees, maxToPay |-> max,
    commas |-> commas, form |-> form ]
TableForms == {"numbered", "mandated", "unnumbered", "none"}

BaseFields ==
  [ year |-> "2012", make |-> "Honda", model |-> "Civic", vin |-> Undef,
    role |-> "Buyer", price |-> "6000", conditionNotes |-> << >> ]

\* a request that carries nothing but its notes
BlankFields ==
  [ year |-> Undef, make |-> Undef, model |-> Undef, vin |-> Undef,
    role |-> Undef, price |-> Undef, conditionNotes |-> << >> ]

BaseEnv ==
  [ decode    |-> DecodeOk("2014", "Ford", "F-150"),
    recall    |-> [kind |-> "ok", count |-> 0, summaries |-> TRUE],
    retail    |-> SearchOk(2),
    auction   |-> SearchOk(2),
    vinSearch |-> SearchOk(0),
    upload    |-> << "ok", "ok" >>,
    jobFinal  |-> "completed",
    jobReady  |-> 1,
    latency   |-> 0,
    parse     |-> "ok",
    listing   |-> "ok",
    audit     |-> "ok",
    output    |-> "text",
    addendum  |-> FALSE,
    table     |-> Table(800, 1200, 400, 5500, TRUE, "numbered") ]

Scenario(m, f, ph, e) == [method |-> m, fields |-> f, files |-> ph, env |-> e]

\* requests that differ in the identity fields and in the decoder's answer
IdentityScenarios ==
  { Scenario("POST",
             [BaseFields EXCEPT !.year = y, !.make = mk, !.model = md, !.vin = v],
             << >>, [BaseEnv EXCEPT !.decode = d]) :
      y \in {Undef, "", "2012"}, mk \in {"", "Honda"}, md \in {"", "Civic"},
      v \in {Undef, "1FTFW1ET1EFA00001"}, d \in DecodeOutcomes }

\* requests that differ in the outcome of each enrichment branch
EnrichScenarios ==
  { Scenario("POST", [BaseFields EXCEPT !.vin = v], << >>,
             [BaseEnv EXCEPT !.recall = r, !.retail = rt, !.auction = au,
                             !.vinSearch = vs]) :
      v \in {Undef, "1FTFW1ET1EFA00001"},
      r \in RecallOutcomes, rt \in SearchOutcomes,
      au \in {SearchOk(2), SearchFail("neterr")},
      vs \in {SearchOk(0), SearchOk(2), SearchFail("timeout")} }

\* requests that differ in the submitted photos and in the upload outcomes
PhotoScenarios ==
  { Scenario("POST", BaseFields, ph, [BaseEnv EXCEPT !.upload = up]) :
      ph \in PhotoLists, up \in [1..PhotoCap -> {"ok", "fail"}] }

\* requests that differ in the behaviour of the generation job
ReadyAfter == {0, 1, 40, 41}
JobScenarios ==
  { Scenario("POST", BaseFields, << >>,
             [BaseEnv EXCEPT !.jobFinal = jf, !.jobReady = n, !.latency = l]) :
      jf \in JobFinals, n \in ReadyAfter, l \in {0, 1000} }

\* requests that differ in the method, in the outcome of form.parse and of
\* the audit write, and in how the job ends
EntryScenarios ==
  { Scenario(m, BaseFields, << >>,
             [BaseEnv EXCEPT !.parse = p, !.audit = a, !.jobFinal = jf]) :
      m \in Methods, p \in {"ok", "error"},
      a \in {"ok", "error", "throws", "hangs"}, jf \in {"completed", "failed"} }

\* requests that differ in the notes, in what else they carry and in the
\* answer of the listing page
ListingScenarios ==
  { Scenario("POST", [BlankFields EXCEPT !.conditionNotes = n, !.make = mk,
                                         !.role = ro],
             ph, [BaseEnv EXCEPT !.listing = l, !.audit = a]) :
      n \in NotesKinds, mk \in {Undef, "Honda"}, ro \in {Undef, "Buyer"},
      ph \in { << >>, << Photo(1, 1024, "image/jpeg") >> },
      l \in {"ok", "neterr", "timeout"}, a \in {"ok", "throws"} }

\* requests that differ in what the generation service lists as output
OutputScenarios ==
  { Scenario("POST", [BaseFields EXCEPT !.role = ro], << >>,
             [BaseEnv EXCEPT !.output = o]) :
      ro \in {"Buyer", "Seller"}, o \in OutputKinds }

\* requests whose run writes a second assistant message, the image
\* addendum, after the report
AddendumScenarios ==
  { Scenario("POST", [BaseFields EXCEPT !.role = ro], ph,
             [BaseEnv EXCEPT !.addendum = TRUE]) :
      ro \in {"Buyer", "Seller"},
      ph \in { << >>, << Photo(1, 1024, "image/jpeg") >> } }

\* requests that differ in the role, in the asking price and in the
\* money-math table the assistant wrote
MoneyScenarios ==
  { Scenario("POST", [BaseFields EXCEPT !.role = ro, !.price = pr], << >>,
             [BaseEnv EXCEPT !.table = Table(lo, lo + 400, fe, mx, c, tf)]) :
      ro \in {"Buyer", "Flipper", "Seller", Undef},
      pr \in {"6000", "950", "6,000", Undef},
      lo \in {0, 800}, fe \in {400, 1500}, mx \in {5500, 6500},
      c \in BOOLEAN, tf \in TableForms }

Scenarios == IdentityScenarios \cup EnrichScenarios \cup PhotoScenarios
             \cup JobScenarios \cup EntryScenarios \cup ListingScenarios
             \cup OutputScenarios \cup AddendumScenarios \cup MoneyScenarios

(* ------------------------------------------------------------------ *)
(* State                                                                *)
(* ------------------------------------------------------------------ *)
VARIABLES
  rev,            \* the revision of the handler that serves the invocation
  method,         \* req.method
  fields,         \* flattened form fields of the request
  files,          \* files.photos, in submission order
  env,            \* what each external collaborator answers
  pc,             \* position of the invocation in the handler
  decodedData,    \* decodedData of the handler
  recallYear, recallMake, recallModel,
  branch,         \* state of each promise handed to Promise.all
  timer,          \* state of each branch's setTimeout
  aborted,        \* controller.signal.aborted of each branch
  recallData, retailData, auctionData, vinSearchData,
  payload,        \* the assembled prompt, as the fields it is built from
  uploadFileIds,  \* photos forwarded to the generation service
  run,            \* "created" once runs.create has returned
  runStatus, retries, elapsed, polls,
  report,
  errMsg,         \* message of the error that reached the catch block
  resp,           \* the response sent to the caller
  listing,        \* what fetchListingData returned
  money,          \* the figures of the recomputed money-math table
  pending,        \* the response the handler has decided to send
  out,            \* how far the handler is with logging and sending it
  auditLog,       \* the records handed to logTraffic, in order
  headers,        \* the response headers set with res.setHeader
  calls,          \* the calls made to the generation service, in order
  clock,          \* the calendar year new Date() reads
  replay,         \* the identity resolved by a second run of the request
  peers           \* two invocations served at once by the same module

inputs == << rev, method, fields, files, env >>
identity == << decodedData, recallYear, recallMake, recallModel >>
fanout == << branch, timer, aborted >>
bundle == << recallData, retailData, auctionData, vinSearchData >>
job == << run, runStatus, retries, elapsed, polls >>
delivery == << resp, pending, out, auditLog >>
rerun == << clock, replay >>
side == << listing, money, pending, out, auditLog, clock, replay >>
solo == << rev, method, fields, files, env, pc, decodedData, recallYear, recallMake,
           recallModel, branch, timer, aborted, recallData, retailData,
           auctionData, vinSearchData, payload, uploadFileIds, run, runStatus,
           retries, elapsed, polls, report, errMsg, resp, listing, money,
           pending, out, auditLog, headers, calls, clock, replay >>
vars == << solo, peers >>

NoData == [def |-> "undefined", items |-> << >>]
EmptyObj == [def |-> "empty", items |-> << >>]
NoRecall == [def |-> "null", count |-> 0, summaries |-> FALSE]
NoPayload == [built |-> FALSE, role |-> Undef, requested |-> {}, body |-> << >>,
              sections |-> << >>,
              year |-> Undef, make |-> Undef, model |-> Undef,
              recallBlock |-> "", retail |-> << >>, auction |-> << >>,
              vinMentions |-> << >>]
NoResp == [status |-> 0, field |-> "", value |-> ""]
NoMoney == [computed |-> FALSE, asking |-> 0, repairsLow |-> 0, repairsHigh |-> 0,
            fees |-> 0, maxToPay |-> 0, savings |-> 0, allInLow |-> 0,
            allInHigh |-> 0, written |-> FALSE]
NoReplay == [done |-> FALSE, year |-> Undef, make |-> Undef, model |-> Undef]

\* nothing of the invocation has run
Idle ==
  /\ pc = "entry"
  /\ decodedData = DecodeFail("none")
  /\ recallYear = Undef /\ recallMake = Undef /\ recallModel = Undef
  /\ branch = [b \in Branches |-> "idle"]
  /\ timer = [b \in Branches |-> "none"]
  /\ aborted = [b \in Branches |-> FALSE]
  /\ recallData = NoRecall
  /\ retailData = NoData /\ auctionData = NoData /\ vinSearchData = NoData
  /\ payload = NoPayload
  /\ uploadFileIds = << >>
  /\ run = "none"
  /\ runStatus = "none" /\ retries = 0 /\ elapsed = 0 /\ polls = 0
  /\ report = ""
  /\ errMsg = ""
  /\ resp = NoResp
  /\ listing = "none"
  /\ money = NoMoney
  /\ pending = NoResp
  /\ out = "idle"
  /\ auditLog = << >>
  /\ headers = {}
  /\ calls = << >>
  /\ clock = CurrentYear
  /\ replay = NoReplay

NoPeers == [primer |-> << >>, nextThread |-> 0, threads |-> << >>,
            table |-> << >>, inv |-> << >>]

Init ==
  /\ rev \in Revs
  /\ \E s \in Scenarios :
       method = s.method /\ fields = s.fields /\ files = s.files /\ env = s.env
  /\ Idle
  /\ peers = NoPeers

\* a call that has no timer and whose peer never answers stays pending
NeverSettles(r, kind) == kind = "timeout" /\ r \notin TimeoutRevs

(* ------------------------------------------------------------------ *)
(* Responding: logTraffic, then res.status(...).json(...)               *)
(* ------------------------------------------------------------------ *)
Response(st, f, v) == [status |-> st, field |-> f, value |-> v]

\* request_body of an audit record: the flattened form fields, or {}
Snapshot(f) == [recorded |-> TRUE, role |-> roleOf(f)]
NoSnapshot == [recorded |-> FALSE, role |-> Undef]

\* the record handed to logTraffic
Record(response, request) == [response |-> response, request |-> request]

\* request: of the record written in the catch block
CatchSnapshot(r, f) == IF r \in WrappedRevs THEN NoSnapshot ELSE Snapshot(f)

\* request: of the record written after a form parse error: {} in
\* part_002, part_004, part_005 and part_001:44, and in part_003:92 the
\* fields formidable had parsed when it failed
ParseErrorSnapshots(r, f) ==
  IF r \in ShortCircuitRevs THEN {Snapshot(f), NoSnapshot} ELSE {NoSnapshot}

\* body of the 500 response of the catch block
ErrorBody(r) ==
  IF r \in {"s1", "s2", "p2b"} THEN "Evaluation failed." ELSE "Evaluation failed"

\* res.status(..).json(..) with no logTraffic call before it
SendNow(r) ==
  /\ resp' = r
  /\ pending' = r
  /\ out' = "sent"
  /\ UNCHANGED auditLog

\* the response sent first and the record handed over after it
SendThenLog(r, rec) ==
  IF rev \in AuditRevs
  THEN /\ pending' = r
       /\ resp' = r
       /\ auditLog' = Append(auditLog, rec)
       /\ out' = "sent"
  ELSE SendNow(r)

\* await logTraffic({ statusCode, response, .. }) followed by
\* res.status(..).json(..): the record is handed over and the handler
\* waits for logTraffic to return
LogThenSend(r, rec) ==
  IF rev \in AuditRevs
  THEN /\ pending' = r
       /\ auditLog' = Append(auditLog, rec)
       /\ out' = "logging"
       /\ UNCHANGED resp
  ELSE SendNow(r)

\* logTraffic without its try/catch around the insert
logTrafficUncaught(outcome) ==
  IF outcome = "throws" THEN "raised" ELSE "returned"

\* logTraffic: the insert is awaited inside try/catch; a rejected insert is
\* logged to the console, an { error } result is ignored
logTraffic(outcome) == "returned"

\* the audit write settles and the awaited logTraffic call completes
AuditSettles ==
  /\ out = "logging"
  /\ env.audit # "hangs"
  /\ out' = IF logTraffic(env.audit) = "raised" THEN "unhandled" ELSE "sending"
  /\ UNCHANGED << inputs, pc, identity, fanout, bundle, payload, uploadFileIds,
                  job, report, errMsg, resp, listing, money, pending, auditLog,
                  rerun >>
  /\ UNCHANGED headers
  /\ UNCHANGED peers
  /\ UNCHANGED calls

\* the statement after the awaited logTraffic call: return res.status(..).json(..)
SendResponse ==
  /\ out = "sending"
  /\ resp' = pending
  /\ out' = "sent"
  /\ UNCHANGED << inputs, pc, identity, fanout, bundle, payload, uploadFileIds,
                  job, report, errMsg, listing, money, pending, auditLog, rerun >>
  /\ UNCHANGED headers
  /\ UNCHANGED peers
  /\ UNCHANGED calls

(* ------------------------------------------------------------------ *)
(* Entry: method check, form parsing, link-only short-circuit           *)
(* ------------------------------------------------------------------ *)
\* the three res.setHeader calls that open the handler
CorsHeaders(r) ==
  IF r \in CorsRevs
  THEN { "Access-Control-Allow-Origin", "Access-Control-Allow-Methods",
         "Access-Control-Allow-Headers" }
  ELSE {}

CheckMethod ==
  /\ pc = "entry"
  /\ headers' = CorsHeaders(rev)
  /\ IF method = "OPTIONS" /\ rev \in PreflightRevs
     THEN pc' = "ended" /\ SendNow(Response(200, "", ""))
     ELSE IF method # "POST"
          THEN pc' = "ended" /\ SendNow(Response(405, "error", "Method not allowed"))
          ELSE pc' = "parse" /\ UNCHANGED delivery
  /\ UNCHANGED << inputs, identity, fanout, bundle, payload, uploadFileIds, job,
                  report, errMsg, listing, money, rerun >>
  /\ UNCHANGED peers
  /\ UNCHANGED calls

\* form.parse calls back with err or with the fields.  part_002:71-74
\* (and submitEvaluation.js:423-426) rejects on err, which lands in the
\* catch block of the handler; the
\* other revisions answer "Form parse error" from the callback
ParseForm ==
  /\ pc = "parse"
  /\ IF env.parse = "ok"
     THEN pc' = "start" /\ UNCHANGED delivery
     ELSE /\ pc' = "ended"
          /\ \E request \in ParseErrorSnapshots(rev, fields) :
               IF rev \in WrappedRevs
               THEN LogThenSend(Response(500, "error", ErrorBody(rev)),
                                Record(Response(500, "error", "parse error message"),
                                       request))
               ELSE LogThenSend(Response(500, "error", "Form parse error"),
                                Record(Response(500, "error", "Form parse error"),
                                       request))
  /\ UNCHANGED << inputs, identity, fanout, bundle, payload, uploadFileIds, job,
                  report, errMsg, listing, money, rerun >>
  /\ UNCHANGED headers
  /\ UNCHANGED peers
  /\ UNCHANGED calls

\* the URL pattern asks for a host that ends in one of the auction names
\* or in com / net / org; its (?!facebook) stands after the host and does
\* not keep facebook.com out
MatchesUrlRegex(w) == w \in {"copart", "dotcom", "facebook"}

extractRelevantURLs(text) == SelectSeq(text, MatchesUrlRegex)

\* Object.keys(otherFields).filter(k => otherFields[k]): every form field
\* but conditionNotes and session_id that holds a non-empty value
nonNoteKeys(f) ==
  { k \in {"year", "make", "model", "vin", "role", "price"} : Truthy(f[k]) }

ShortCircuit(r, f) ==
  /\ r \in ShortCircuitRevs
  /\ Len(extractRelevantURLs(f.conditionNotes)) = 1
  /\ nonNoteKeys(f) = {}

\* fetchListingData: any failure of the fetch or of the parsing is caught
\* and null is returned
fetchListingData(outcome) == IF outcome = "ok" THEN "scraped" ELSE "null"

\* the short-circuit is taken: fetchListingData(listingLinks[0]) is called
StartListingScrape ==
  /\ pc = "start"
  /\ ShortCircuit(rev, fields)
  /\ pc' = "listing"
  /\ UNCHANGED << inputs, identity, fanout, bundle, payload, uploadFileIds, job,
                  report, errMsg, listing, money, delivery, rerun >>
  /\ UNCHANGED headers
  /\ UNCHANGED peers
  /\ UNCHANGED calls

\* the scrape returns; the listing is logged and sent
ListingScraped ==
  /\ pc = "listing"
  /\ ~ NeverSettles(rev, env.listing)
  /\ listing' = fetchListingData(env.listing)
  /\ pc' = "ended"
  /\ LogThenSend(Response(200, "listing", listing'),
                 Record(Response(200, "listing", listing'), Snapshot(fields)))
  /\ UNCHANGED << inputs, identity, fanout, bundle, payload, uploadFileIds, job,
                  report, errMsg, money, rerun >>
  /\ UNCHANGED headers
  /\ UNCHANGED peers
  /\ UNCHANGED calls

(* ------------------------------------------------------------------ *)
(* Identity Resolver                                                    *)
(* ------------------------------------------------------------------ *)
NoDecoded == DecodeFail("none")

\* decodeVin without its try/catch: a failure of the call is raised
decodeVinUncaught(outcome) ==
  IF outcome.kind = "ok"
  THEN [source |-> "NHTSA", hasData |-> TRUE, data |-> outcome, raised |-> FALSE]
  ELSE [source |-> "error", hasData |-> FALSE, data |-> NoDecoded, raised |-> TRUE]

\* decodeVin: every failure of the fetch, of res.json() and of
\* data.Results[0] is caught and turned into { source: "error" }
decodeVin(outcome) ==
  CASE outcome.kind = "ok" ->
         [source |-> "NHTSA", hasData |-> TRUE, data |-> outcome, raised |-> FALSE]
    [] outcome.kind = "emptyresults" ->
         [source |-> "NHTSA", hasData |-> FALSE, data |-> NoDecoded, raised |-> FALSE]
    [] OTHER ->
         [source |-> "error", hasData |-> FALSE, data |-> NoDecoded, raised |-> FALSE]

\* new Date().getFullYear()
getFullYear == clock

\* recallYear / recallMake / recallModel of part_002:199-201 and of the
\* revisions that share the fallbacks
ResolveYearNoDefault(year, d) == Or(year, d.ModelYear)
ResolveYear(year, d) == Or(Or(year, d.ModelYear), getFullYear)
ResolveMakeDecodedFirst(make, d) == Or(Or(d.Make, make), "")
ResolveMake(make, d) == Or(Or(make, d.Make), "")
ResolveModel(model, d) == Or(Or(model, d.Model), "")

\* part_001:60-62 has no final fallback: decodedData.year / .make / .model
\* do not exist in a decoder record
ResolveNoDefault(user, decodedField) == Or(Or(user, decodedField), Undef)

\* decodedData after "if (vin) { .. }"
DecodedFor(f, outcome) ==
  IF Truthy(f.vin) /\ decodeVin(outcome).hasData
  THEN decodeVin(outcome).data ELSE NoDecoded

\* an identity whose year is always read from the clock
IdentityOfClockYear(r, f, d) ==
  [ year |-> getFullYear, make |-> ResolveMake(f.make, d),
    model |-> ResolveModel(f.model, d) ]

\* the three resolved values
IdentityOf(r, f, d) ==
  IF r = "p1a"
  THEN [ year |-> ResolveNoDefault(f.year, d.ModelYear),
         make |-> ResolveNoDefault(f.make, d.Make),
         model |-> ResolveNoDefault(f.model, d.Model) ]
  ELSE [ year |-> ResolveYear(f.year, d),
         make |-> ResolveMake(f.make, d),
         model |-> ResolveModel(f.model, d) ]

ResolveIdentity ==
  /\ pc = "start"
  /\ rev \in IdentityRevs
  /\ ~ ShortCircuit(rev, fields)
  /\ ~ (Truthy(fields.vin) /\ NeverSettles(rev, env.decode.kind))
  /\ LET d == DecodedFor(fields, env.decode)
         id == IdentityOf(rev, fields, d)
     IN IF Truthy(fields.vin) /\ decodeVin(env.decode).raised
        THEN /\ pc' = "catch"
             /\ errMsg' = "VIN decode failed"
             /\ UNCHANGED identity
        ELSE /\ decodedData' = d
             /\ recallYear' = id.year
             /\ recallMake' = id.make
             /\ recallModel' = id.model
             /\ pc' = IF rev = "p5" /\ Len(extractRelevantURLs(fields.conditionNotes)) > 0
                      THEN "scrape"
                      ELSE IF rev \in FanoutRevs THEN "enrich" ELSE "recall"
             /\ UNCHANGED errMsg
  /\ UNCHANGED << inputs, fanout, bundle, payload, uploadFileIds, job, report, resp >>
  /\ UNCHANGED side
  /\ UNCHANGED headers
  /\ UNCHANGED peers
  /\ UNCHANGED calls

\* part_005:90-105: the first link of the notes is scraped for the prompt
\* before the enrichment calls are made
ScrapeForPrompt ==
  /\ pc = "scrape"
  /\ ~ NeverSettles(rev, env.listing)
  /\ listing' = fetchListingData(env.listing)
  /\ pc' = "enrich"
  /\ UNCHANGED << inputs, identity, fanout, bundle, payload, uploadFileIds, job,
                  report, errMsg, money, delivery, rerun >>
  /\ UNCHANGED headers
  /\ UNCHANGED peers
  /\ UNCHANGED calls

\* a second run of the same request, after the first one: the decoder
\* answers what it answered before, the clock is read again
ReplayReady ==
  /\ rev \in IdentityRevs
  /\ pc = "done" /\ out = "sent"
  /\ errMsg # "VIN decode failed"
  /\ ~ replay.done

\* the calendar year changes between the two runs
NewYear ==
  /\ ReplayReady
  /\ clock = CurrentYear
  /\ clock' = "nextYear"
  /\ UNCHANGED << inputs, pc, identity, fanout, bundle, payload, uploadFileIds,
                  job, report, errMsg, listing, money, delivery, replay >>
  /\ UNCHANGED headers
  /\ UNCHANGED peers
  /\ UNCHANGED calls

ResolveIdentityAgain ==
  /\ ReplayReady
  /\ LET id == IdentityOf(rev, fields, DecodedFor(fields, env.decode))
     IN replay' = [done |-> TRUE, year |-> id.year, make |-> id.make,
                   model |-> id.model]
  /\ UNCHANGED << inputs, pc, identity, fanout, bundle, payload, uploadFileIds,
                  job, report, errMsg, listing, money, delivery, clock >>
  /\ UNCHANGED headers
  /\ UNCHANGED peers
  /\ UNCHANGED calls

\* a part of the content of the prompt message, and whether it is set
\* off as untrusted input
Part(kind, untrusted) == [kind |-> kind, untrusted |-> untrusted]

\* the content of the one message that carries the prompt: the labelled
\* lines of the form fields, the line "Notes: ${conditionNotes}", the
\* enrichment blocks and, in the revisions with a systemPrimer, its
\* lines, joined with "\n" into one string
PromptBody(r) ==
  << Part("fields", FALSE), Part("notes", FALSE) >>
  \o ( IF r \in IdentityRevs THEN << Part("enrichment", FALSE) >> ELSE << >> )
  \o ( IF r \in PrimerRevs THEN << Part("instructions", FALSE) >> ELSE << >> )

\* the revisions without enrichment put the form fields into the prompt
BuildUserInput ==
  /\ pc = "start"
  /\ rev \notin IdentityRevs
  /\ payload' = [NoPayload EXCEPT !.built = TRUE, !.role = roleOf(fields),
                                  !.body = PromptBody(rev),
                                  !.year = fields.year,
                                  !.make = fields.make, !.model = fields.model]
  /\ pc' = "submit"
  /\ UNCHANGED << inputs, identity, fanout, bundle, uploadFileIds, job, report,
                  errMsg, resp >>
  /\ UNCHANGED side
  /\ UNCHANGED headers
  /\ UNCHANGED peers
  /\ UNCHANGED calls

(* ------------------------------------------------------------------ *)
(* Enrichment Fan-out                                                   *)
(* ------------------------------------------------------------------ *)
\* fetchWithTimeout arms one timer and one AbortController per call; the
\* revisions that call fetch directly have neither
TimerFor(r) == IF r \in TimeoutRevs THEN "armed" ELSE "none"

\* one AbortController shared by the calls of the fan-out
AbortScopeShared(b) == Branches

\* the calls whose AbortController the timer of branch b signals
AbortScope(b) == {b}

\* how the promise of a branch settles when its peer answers:
\* fetch(recallURL) resolves with any HTTP response, its body is read
\* after Promise.all; searchGoogle also reads the body with res.json()
SettleOutcome(b, kind) ==
  IF b = "recall"
  THEN IF kind \in {"ok", "nonok", "badjson"} THEN "resolved" ELSE "rejected"
  ELSE IF kind = "ok" THEN "resolved" ELSE "rejected"

\* the four promises are created, in order, in the argument of Promise.all;
\* without a VIN the fourth is Promise.resolve({ items: [] })
StartFanout ==
  /\ pc = "enrich"
  /\ rev \in FanoutRevs
  /\ branch' = [b \in Branches |->
                  IF b = "vinSearch" /\ ~ Truthy(fields.vin)
                  THEN "resolved" ELSE "inflight"]
  /\ timer' = [b \in Branches |->
                 IF b = "vinSearch" /\ ~ Truthy(fields.vin)
                 THEN "none" ELSE TimerFor(rev)]
  /\ pc' = "await_all"
  /\ UNCHANGED << inputs, identity, aborted, bundle, payload, uploadFileIds,
                  job, report, errMsg, resp >>
  /\ UNCHANGED side
  /\ UNCHANGED headers
  /\ UNCHANGED peers
  /\ UNCHANGED calls

\* the peer of branch b answers (or the connection fails); the promise
\* settles and promise.finally clears the branch's timer
Settle(b) ==
  /\ branch[b] = "inflight"
  /\ env[b].kind # "timeout"
  /\ branch' = [branch EXCEPT ![b] = SettleOutcome(b, env[b].kind)]
  /\ timer' = [timer EXCEPT ![b] = IF @ = "armed" THEN "cleared" ELSE @]
  /\ UNCHANGED << inputs, pc, identity, aborted, bundle, payload, uploadFileIds,
                  job, report, errMsg, resp >>
  /\ UNCHANGED side
  /\ UNCHANGED headers
  /\ UNCHANGED peers
  /\ UNCHANGED calls

\* the 5 s timer of branch b fires before its peer answered:
\* controller.abort() rejects the fetch of the calls in its scope
TimerFires(b) ==
  /\ branch[b] = "inflight"
  /\ timer[b] = "armed"
  /\ env[b].kind = "timeout"
  /\ timer' = [timer EXCEPT ![b] = "fired"]
  /\ aborted' = [c \in Branches |->
                   IF c \in AbortScope(b) /\ branch[c] = "inflight"
                   THEN TRUE ELSE aborted[c]]
  /\ branch' = [c \in Branches |->
                  IF c \in AbortScope(b) /\ branch[c] = "inflight"
                  THEN "rejected" ELSE branch[c]]
  /\ UNCHANGED << inputs, pc, identity, bundle, payload, uploadFileIds,
                  job, report, errMsg, resp >>
  /\ UNCHANGED side
  /\ UNCHANGED headers
  /\ UNCHANGED peers
  /\ UNCHANGED calls

\* value of retailData / auctionData / vinSearchData before the join
DefaultData(r) == IF r \in {"p4", "p5"} THEN NoData ELSE EmptyObj

Items(n) == [i \in 1..n |-> i]
SearchJson(outcome) == [def |-> "json", items |-> Items(outcome.n)]
RecallJson(outcome) ==
  [def |-> "json", count |-> outcome.count, summaries |-> outcome.summaries]

\* Promise.all settles: it rejects as soon as one promise is rejected
\* and resolves once all are resolved
AllSettles(br) ==
  \/ \E b \in Branches : br[b] = "rejected"
  \/ \A b \in Branches : br[b] = "resolved"

\* the try block around Promise.all: the four assignments happen only if
\* nothing was thrown before them
JoinSucceeds(br, e) ==
  /\ \A b \in Branches : br[b] = "resolved"
  /\ e.recall.kind = "ok"

Join ==
  /\ pc = "await_all"
  /\ AllSettles(branch)
  /\ IF JoinSucceeds(branch, env)
     THEN /\ recallData' = RecallJson(env.recall)
          /\ retailData' = SearchJson(env.retail)
          /\ auctionData' = SearchJson(env.auction)
          /\ vinSearchData' = IF Truthy(fields.vin) THEN SearchJson(env.vinSearch)
                               ELSE [def |-> "json", items |-> << >>]
     ELSE /\ recallData' = NoRecall
          /\ retailData' = DefaultData(rev)
          /\ auctionData' = DefaultData(rev)
          /\ vinSearchData' = DefaultData(rev)
  /\ pc' = "assemble"
  /\ UNCHANGED << inputs, identity, fanout, payload, uploadFileIds, job, report,
                  errMsg, resp >>
  /\ UNCHANGED side
  /\ UNCHANGED headers
  /\ UNCHANGED peers
  /\ UNCHANGED calls

\* part_001:63-73: the only enrichment call is the recall lookup, awaited
\* on its own inside its own try/catch
RecallLookup ==
  /\ pc = "recall"
  /\ rev = "p1a"
  /\ ~ NeverSettles(rev, env.recall.kind)
  /\ recallData' = IF env.recall.kind = "ok" THEN RecallJson(env.recall)
                    ELSE NoRecall
  /\ pc' = "assemble"
  /\ UNCHANGED << inputs, identity, fanout, retailData, auctionData,
                  vinSearchData, payload, uploadFileIds, job, report, errMsg, resp >>
  /\ UNCHANGED side
  /\ UNCHANGED headers
  /\ UNCHANGED peers
  /\ UNCHANGED calls

(* ------------------------------------------------------------------ *)
(* Prompt Assembler                                                     *)
(* ------------------------------------------------------------------ *)
\* a line of systemPrimer: what it asks the report to hold, and the role
\* it is written for ("any" when the line names no role)
Line(item, who) == [item |-> item, who |-> who]

\* the lines of systemPrimer that speak of prices, resale and margins.
\* part_002:109-185 has the money-math table with its Max Price to Pay
\* row and "NEVER include retail value or margin"; part_005:164-210 (and
\* part_001:315-365, part_003:178-222) has the money-math table "with
\* resale value and net margin", the BUYER / FLIPPER / SELLER rules and
\* "ALWAYS explain how 'Max Price to Pay' or 'Max Bid' is derived";
\* part_004:122-143 has one "If <role>:" line per role
systemPrimer(r) ==
  CASE r \in WrappedRevs ->
         { Line("maxPriceToPay", "any"), Line("noRetailOrMargin", "any") }
    [] r \in {"p1b", "p3", "p5"} ->
         { Line("resaleAndMargin", "any"), Line("noResaleTalk", "Buyer"),
           Line("roiMaxBid", "Flipper"), Line("listPrep", "Seller"),
           Line("maxPriceToPay", "any") }
    [] r = "p4" ->
         { Line("maxPriceToPay", "Buyer"), Line("maxPriceToPay", "Flipper"),
           Line("roiMaxBid", "Flipper"), Line("maxBid", "Auction"),
           Line("maxAskingPrice", "Seller"), Line("resaleAndMargin", "any") }
    [] OTHER -> {}

\* the same lines are sent whatever the role; a line written for one
\* role asks something of the report of that role only
Requested(r, role) ==
  { l.item : l \in { x \in systemPrimer(r) : x.who \in {"any", role} } }

\* formatResults reads data.items: a TypeError when data is undefined
formatResultsThrows(data) == data.def = "undefined"

\* formatResults without the slice
formatResultsUncapped(data) == data.items

formatResults(data) == Slice(data.items, ResultCap)

\* what formatResults(title, data) returns: the title followed by
\* "No results found." when data.items is missing or empty, and by the
\* numbered items otherwise
Section(category, data) ==
  [ category |-> category, placeholder |-> data.items = << >>,
    items |-> formatResults(data) ]

\* the VIN-specific section is appended when vinSearchData.items has a
\* length (part_004:117 and part_005:160 also ask for a VIN)
vinSectionIncluded(r, vin, data) ==
  /\ data.items # << >>
  /\ r \in {"p4", "p5"} => Truthy(vin)

\* searchSummary
searchSummary(r, vin, retail, auction, vinData) ==
  << Section("retail", retail), Section("auction", auction) >>
  \o ( IF vinSectionIncluded(r, vin, vinData)
       THEN << Section("vinSearch", vinData) >> ELSE << >> )

\* the recall block: "alerts" lists the recalls, "none" is the
\* 'No recall alerts found.' placeholder, "throws" a TypeError on
\* recallData.summaries.map / recallData.results.map
recallBlock(r, rd) ==
  IF rd.def = "null" \/ rd.count = 0 THEN "none"
  ELSE IF r \in WrappedRevs THEN (IF rd.summaries THEN "alerts" ELSE "throws")
  ELSE IF r = "p1a" THEN (IF rd.summaries THEN "throws" ELSE "alerts")
  ELSE (IF rd.summaries THEN "alerts" ELSE "none")

\* the VIN-specific section is appended when the search returned items
vinSectionThrows(r, vin, data) ==
  IF r \in {"p2a", "s4", "p1b"} THEN data.def = "undefined"
  ELSE Truthy(vin) /\ data.def = "undefined"

AssembleThrows(r) ==
  \/ recallBlock(r, recallData) = "throws"
  \/ /\ r \in FanoutRevs
     /\ \/ formatResultsThrows(retailData)
        \/ formatResultsThrows(auctionData)
        \/ vinSectionThrows(r, fields.vin, vinSearchData)

Assemble ==
  /\ pc = "assemble"
  /\ IF AssembleThrows(rev)
     THEN /\ pc' = "catch"
          /\ errMsg' = "TypeError"
          /\ UNCHANGED payload
     ELSE /\ payload' =
               [ built |-> TRUE,
                 role |-> roleOf(fields),
                 requested |-> Requested(rev, roleOf(fields)),
                 body |-> PromptBody(rev),
                 sections |-> IF rev \in FanoutRevs
                              THEN searchSummary(rev, fields.vin, retailData,
                                                 auctionData, vinSearchData)
                              ELSE << >>,
                 year |-> recallYear, make |-> recallMake, model |-> recallModel,
                 recallBlock |-> recallBlock(rev, recallData),
                 retail |-> IF rev \in FanoutRevs THEN formatResults(retailData)
                            ELSE << >>,
                 auction |-> IF rev \in FanoutRevs THEN formatResults(auctionData)
                             ELSE << >>,
                 vinMentions |-> IF rev \in FanoutRevs
                                 THEN formatResults(vinSearchData) ELSE << >> ]
          /\ pc' = "submit"
          /\ UNCHANGED errMsg
  /\ UNCHANGED << inputs, identity, fanout, bundle, uploadFileIds, job, report, resp >>
  /\ UNCHANGED side
  /\ UNCHANGED headers
  /\ UNCHANGED peers
  /\ UNCHANGED calls

(* ------------------------------------------------------------------ *)
(* Generation Job Runner                                                *)
(* ------------------------------------------------------------------ *)
\* a call to the generation service, with the file ids it carries
Call(op, ids) == [op |-> op, files |-> ids]

\* calls made out of the order of the awaits
IssueFirst(log, c) == << c >> \o log

\* every call is awaited before the next statement runs
Issue(log, c) == Append(log, c)

\* threads.create and the message that carries the prompt
CreateThread ==
  /\ pc = "submit"
  /\ pc' = "photos"
  /\ UNCHANGED << inputs, identity, fanout, bundle, payload, uploadFileIds, job,
                  report, errMsg, resp >>
  /\ UNCHANGED side
  /\ UNCHANGED headers
  /\ UNCHANGED peers
  /\ calls' = Issue(Issue(calls, Call("threads.create", << >>)),
                  Call("messages.create", << >>))

isValidPhoto(photo) == photo.size > 0 /\ photo.mimetype \in {"image/jpeg", "image/png"}

\* uploads.slice(0, 2).filter(file => file.size > 0 && image type)
SelectUploads(photos) == SelectSeq(Slice(photos, PhotoCap), isValidPhoto)

\* uploads.slice(0, 2), with no validation (submitEvaluation.js:166-169)
SelectUploadsCapOnly(photos) == Slice(photos, PhotoCap)

\* the uploads are awaited one after the other; outcome[i] is what
\* files.create answers for the i-th of them.  With swallow the failure of
\* one upload is caught and the loop goes on, without it the loop is left
\* by the exception
RECURSIVE UploadAll(_, _, _, _)
UploadAll(uploads, outcome, i, swallow) ==
  IF i > Len(uploads) THEN [ids |-> << >>, threw |-> FALSE]
  ELSE IF outcome[i] = "ok"
       THEN LET rest == UploadAll(uploads, outcome, i + 1, swallow)
            IN [ids |-> << uploads[i].idx >> \o rest.ids, threw |-> rest.threw]
       ELSE IF swallow THEN UploadAll(uploads, outcome, i + 1, swallow)
            ELSE [ids |-> << >>, threw |-> TRUE]

\* the message that follows the upload of one photo: none inside the loop
\* of part_002:269-285, two messages without attachment in
\* submitEvaluation.js:607-628, one without attachment in part_001:398-401,
\* one that names the file everywhere else
PhotoMessages(r, id) ==
  CASE r = "p2a" -> << >>
    [] r = "s4" -> << Call("messages.create", << >>), Call("messages.create", << >>) >>
    [] r = "p1b" -> << Call("messages.create", << >>) >>
    [] OTHER -> << Call("messages.create", << id >>) >>

\* the calls of the photo loop, made like UploadAll makes the uploads
RECURSIVE PhotoCalls(_, _, _, _, _)
PhotoCalls(r, uploads, outcome, i, swallow) ==
  IF i > Len(uploads) THEN << >>
  ELSE IF outcome[i] = "ok"
       THEN << Call("files.create", << uploads[i].idx >>) >>
            \o PhotoMessages(r, uploads[i].idx)
            \o PhotoCalls(r, uploads, outcome, i + 1, swallow)
       ELSE << Call("files.create", << >>) >>
            \o ( IF swallow THEN PhotoCalls(r, uploads, outcome, i + 1, swallow)
                 ELSE << >> )

\* part_002:288-309: one message for all the uploaded files
ImageSection(r, ids) ==
  IF r = "p2a" /\ ids # << >> THEN << Call("messages.create", ids) >> ELSE << >>

AttachPhotos ==
  /\ pc = "photos"
  /\ LET uploads == IF rev \in CapOnlyRevs THEN SelectUploadsCapOnly(files)
                    ELSE SelectUploads(files)
         r == UploadAll(uploads, env.upload, 1, rev \in WrappedRevs)
     IN /\ uploadFileIds' = r.ids
        /\ calls' = calls \o PhotoCalls(rev, uploads, env.upload, 1, rev \in WrappedRevs)
                          \o ImageSection(rev, r.ids)
        /\ IF r.threw
           THEN pc' = "catch" /\ errMsg' = "upload failed"
           ELSE pc' = "run" /\ UNCHANGED errMsg
  /\ UNCHANGED << inputs, identity, fanout, bundle, payload, job, report, resp >>
  /\ UNCHANGED side
  /\ UNCHANGED headers
  /\ UNCHANGED peers

\* runs.create; the elapsed-time revisions read the clock right after it
StartRun ==
  /\ pc = "run"
  /\ run' = "created"
  /\ elapsed' = 0
  /\ pc' = "poll"
  /\ UNCHANGED << inputs, identity, fanout, bundle, payload, uploadFileIds,
                  runStatus, retries, polls, report, errMsg, resp >>
  /\ UNCHANGED side
  /\ UNCHANGED headers
  /\ UNCHANGED peers
  /\ calls' = Issue(calls, Call("runs.create", << >>))

\* what runs.retrieve answers on the n-th poll of the run
StatusAt(n) == IF n > env.jobReady THEN env.jobFinal ELSE "in_progress"

\* message of the timeout error of each revision
TimeoutMessage(r) ==
  IF r \in {"p2a", "s4", "p1b"} THEN "Timed out waiting for assistant"
  ELSE "Timed out waiting for assistant response"

\* a loop that gives up on every status that is not completed or in_progress
pollVerdictGiveUp(st, now) ==
  IF st = "completed" THEN "break"
  ELSE IF st # "in_progress" THEN "failed"
  ELSE IF now > timeoutLimit THEN "timeout"
  ELSE "sleep"

\* a loop that looks at the elapsed time before it looks at the status
pollVerdictTimeoutFirst(st, now) ==
  IF now > timeoutLimit THEN "timeout"
  ELSE IF st = "completed" THEN "break"
  ELSE IF st = "failed" THEN "failed"
  ELSE "sleep"

\* a loop that leaves on any status that is not in_progress
pollVerdictAnyTerminal(st, now) ==
  IF st # "in_progress" THEN "break"
  ELSE IF now > timeoutLimit THEN "timeout"
  ELSE "sleep"

\* part_002:324-327: completed, then failed, then the elapsed-time check
pollVerdict(st, now) ==
  IF st = "completed" THEN "break"
  ELSE IF st = "failed" THEN "failed"
  ELSE IF now > timeoutLimit THEN "timeout"
  ELSE "sleep"

\* part_002:322-328 (and part_001:409-415, part_003:265-271,
\* part_004:195-206, part_005:264-275): one iteration of the do-while
PollElapsed ==
  /\ pc = "poll"
  /\ rev \in TimePollRevs
  /\ LET st == StatusAt(polls + 1)
         now == elapsed + env.latency
         v == pollVerdict(st, now)
     IN /\ runStatus' = st
        /\ polls' = polls + 1
        /\ elapsed' = IF v = "sleep" THEN now + retryDelay ELSE now
        /\ retries' = IF v = "sleep" /\ rev \in {"p4", "p5"}
                      THEN retries + 1 ELSE retries
        /\ pc' = CASE v = "break" -> "fetch"
                   [] v = "sleep" -> "poll"
                   [] OTHER -> "catch"
        /\ errMsg' = CASE v = "failed" -> "Assistant run failed"
                       [] v = "timeout" -> TimeoutMessage(rev)
                       [] OTHER -> errMsg
  /\ UNCHANGED << inputs, identity, fanout, bundle, payload, uploadFileIds, run,
                  report, resp >>
  /\ UNCHANGED side
  /\ UNCHANGED headers
  /\ UNCHANGED peers
  /\ calls' = IF polls' = polls THEN calls
               ELSE Issue(calls, Call("runs.retrieve", << >>))

\* the loop with the counter compared before it is incremented
PollRetriesPostIncrement ==
  /\ pc = "poll"
  /\ rev \in RetryPollRevs
  /\ LET st == StatusAt(polls + 1)
     IN /\ runStatus' = st
        /\ polls' = polls + 1
        /\ IF st = "completed"
           THEN pc' = "fetch" /\ UNCHANGED << retries, errMsg >>
           ELSE /\ retries' = retries + 1
                /\ IF retries > maxRetries
                   THEN pc' = "catch" /\ errMsg' = TimeoutMessage(rev)
                   ELSE pc' = "poll" /\ UNCHANGED errMsg
  /\ UNCHANGED << inputs, identity, fanout, bundle, payload, uploadFileIds, run,
                  elapsed, report, resp >>
  /\ UNCHANGED side
  /\ UNCHANGED headers
  /\ UNCHANGED peers
  /\ calls' = IF polls' = polls THEN calls
               ELSE Issue(calls, Call("runs.retrieve", << >>))

\* part_001:124-129 and submitEvaluation.js:292-297: completed, then
\* ++retries > maxRetries, then the sleep
PollRetries ==
  /\ pc = "poll"
  /\ rev \in RetryPollRevs
  /\ LET st == StatusAt(polls + 1)
     IN /\ runStatus' = st
        /\ polls' = polls + 1
        /\ IF st = "completed"
           THEN pc' = "fetch" /\ UNCHANGED << retries, errMsg >>
           ELSE /\ retries' = retries + 1
                /\ IF retries + 1 > maxRetries
                   THEN pc' = "catch" /\ errMsg' = TimeoutMessage(rev)
                   ELSE pc' = "poll" /\ UNCHANGED errMsg
  /\ UNCHANGED << inputs, identity, fanout, bundle, payload, uploadFileIds, run,
                  elapsed, report, resp >>
  /\ UNCHANGED side
  /\ UNCHANGED headers
  /\ UNCHANGED peers
  /\ calls' = IF polls' = polls THEN calls
               ELSE Issue(calls, Call("runs.retrieve", << >>))

\* submitEvaluation.js:98-102, :193-196 and part_002:479-483: retrieve,
\* sleep, and again while the status is not completed.  polls counts the
\* retrievals and stops counting at MaxPolls
PollUnbounded ==
  /\ pc = "poll"
  /\ rev \in UnboundedPollRevs
  /\ LET st == StatusAt(polls + 1)
     IN /\ runStatus' = st
        /\ polls' = Min(polls + 1, MaxPolls)
        /\ pc' = IF st = "completed" THEN "fetch" ELSE "poll"
  /\ UNCHANGED << inputs, identity, fanout, bundle, payload, uploadFileIds, run,
                  retries, elapsed, report, errMsg, resp >>
  /\ UNCHANGED side
  /\ UNCHANGED headers
  /\ UNCHANGED peers
  /\ calls' = IF polls' = polls THEN calls
               ELSE Issue(calls, Call("runs.retrieve", << >>))

\* the messages of the thread once the run is completed, in creation
\* order: the user's message, then what the assistant wrote
ThreadOf(e) ==
  << Message("user", "user message") >>
  \o ( CASE e.output = "text" -> << Message("assistant", "report text") >>
          [] e.output = "notext" -> << Message("assistant", Undef) >>
          [] OTHER -> << >> )
  \o ( IF e.addendum THEN << Message("assistant", "addendum text") >>
       ELSE << >> )

Reverse(s) == [i \in 1..Len(s) |-> s[Len(s) + 1 - i]]

\* messages.list(thread.id).data: the messages, newest first
messagesList(thread) == Reverse(thread)

NoMessage == Message("none", Undef)

\* data.find(m => m.role === "assistant")
FindAssistant(data) ==
  LET idx == { i \in DOMAIN data : data[i].role = "assistant" }
  IN IF idx = {} THEN NoMessage
     ELSE data[CHOOSE i \in idx : \A j \in idx : i <= j]

\* the text the handler takes from messages.list.  submitEvaluation.js:105
\* reads messages.data[0].content[0].text.value: the newest message,
\* which is the user's own when the assistant wrote none, and a TypeError
\* when it has no text; :300-307 answers a warning; the others fall back
\* to a placeholder
rawReport(r, data) ==
  IF r \in {"s1", "s2", "p2b"}
  THEN IF Truthy(data[1].text) THEN [threw |-> FALSE, text |-> data[1].text]
       ELSE [threw |-> TRUE, text |-> ""]
  ELSE LET value == FindAssistant(data).text
       IN IF Truthy(value) THEN [threw |-> FALSE, text |-> value]
          ELSE IF r = "s3"
               THEN [threw |-> FALSE, text |-> "no readable text warning"]
               ELSE [threw |-> FALSE, text |-> "No report generated."]

(* ------------------------------------------------------------------ *)
(* Post-Processor: the money-math table (part_002:336-386)              *)
(* ------------------------------------------------------------------ *)
Digit == << "0", "1", "2", "3", "4", "5", "6", "7", "8", "9" >>
IsDigit(c) == \E i \in 1..10 : Digit[i] = c
DigitValue(c) == (CHOOSE i \in 1..10 : Digit[i] = c) - 1

\* the decimal digits of n
RECURSIVE Digits(_)
Digits(n) ==
  IF n < 10 THEN << Digit[n + 1] >>
  ELSE Digits(n \div 10) \o << Digit[(n % 10) + 1] >>

\* n.toLocaleString(): groups of three digits separated by commas
RECURSIVE toLocaleString(_)
toLocaleString(n) ==
  IF n < 1000 THEN Digits(n)
  ELSE toLocaleString(n \div 1000)
       \o << ",", Digit[((n % 1000) \div 100) + 1],
             Digit[((n % 100) \div 10) + 1], Digit[(n % 10) + 1] >>

\* a figure as the assistant wrote it after the $ sign
Written(n, commas) == IF commas THEN toLocaleString(n) ELSE Digits(n)

\* raw.replace(/,/g, "")
RemoveCommas(s) == SelectSeq(s, LAMBDA c : c # ",")

\* the value of a sequence of digits
RECURSIVE DigitsValue(_)
DigitsValue(s) ==
  IF s = << >> THEN 0
  ELSE 10 * DigitsValue(SubSeq(s, 1, Len(s) - 1)) + DigitValue(s[Len(s)])

\* the longest prefix of s made of digits
RECURSIVE LeadingDigits(_)
LeadingDigits(s) ==
  IF s = << >> \/ ~ IsDigit(Head(s)) THEN << >>
  ELSE << Head(s) >> \o LeadingDigits(Tail(s))

\* parseInt(s): the number its leading digits spell; NaN (here -1) when
\* there is none
NaN == -1
parseInt(s) ==
  IF LeadingDigits(s) = << >> THEN NaN ELSE DigitsValue(LeadingDigits(s))

\* parseInt(raw) without the removal of the commas
parseFigureKeepCommas(raw) == parseInt(raw)

\* parseInt(raw.replace(/,/g, ""))
parseFigure(raw) == parseInt(RemoveCommas(raw))

\* the characters of the price field
PriceChars(price) ==
  CASE price = "6000" -> << "6", "0", "0", "0" >>
    [] price = "950" -> << "9", "5", "0" >>
    [] price = "6,000" -> << "6", ",", "0", "0", "0" >>
    [] OTHER -> << >>

\* Number(fields.price) || 0: Number of a string that is not a numeral
\* throughout, and of undefined, is NaN; Number("") is 0
NumberOrZero(price) ==
  LET cs == PriceChars(price)
  IN IF cs # << >> /\ \A i \in 1..Len(cs) : IsDigit(cs[i])
     THEN DigitsValue(cs) ELSE 0

\* the primary pattern finds the Repairs, Fees (TTL) and Max Price to Pay
\* rows wherever they stand in the text
TableMatches(text, table) == text = "report text" /\ table.form # "none"

\* report.replace(/8\. Money Math Table:[\s\S]*?(?=\n9\.)/, ..) replaces
\* something only under that heading
HeadingMatches(table) == table.form = "numbered"

\* a post-processor that does not look at the role
moneyMathAnyRole(r, f, text, table) ==
  IF r \in MoneyMathRevs /\ TableMatches(text, table)
  THEN LET asking == NumberOrZero(f.price)
           repairsLow == parseFigure(Written(table.repairsLow, table.commas))
           repairsHigh == parseFigure(Written(table.repairsHigh, table.commas))
           fees == parseFigure(Written(table.fees, table.commas))
           maxToPay == parseFigure(Written(table.maxToPay, table.commas))
       IN [ computed |-> TRUE, asking |-> asking, repairsLow |-> repairsLow,
            repairsHigh |-> repairsHigh, fees |-> fees, maxToPay |-> maxToPay,
            savings |-> asking - maxToPay,
            allInLow |-> asking + repairsLow + fees,
            allInHigh |-> asking + repairsHigh + fees,
            written |-> HeadingMatches(table) ]
  ELSE NoMoney

\* part_002:336-386
moneyMath(r, f, text, table) ==
  IF r \in MoneyMathRevs /\ roleOf(f) \in {"Buyer", "Flipper"}
     /\ TableMatches(text, table)
  THEN LET asking == NumberOrZero(f.price)
           repairsLow == parseFigure(Written(table.repairsLow, table.commas))
           repairsHigh == parseFigure(Written(table.repairsHigh, table.commas))
           fees == parseFigure(Written(table.fees, table.commas))
           maxToPay == parseFigure(Written(table.maxToPay, table.commas))
       IN [ computed |-> TRUE, asking |-> asking, repairsLow |-> repairsLow,
            repairsHigh |-> repairsHigh, fees |-> fees, maxToPay |-> maxToPay,
            savings |-> asking - maxToPay,
            allInLow |-> asking + repairsLow + fees,
            allInHigh |-> asking + repairsHigh + fees,
            written |-> HeadingMatches(table) ]
  ELSE NoMoney

\* messages.list, the text of the assistant's message and, in
\* part_002:336-386, the money-math table, in one synchronous stretch
FetchOutput ==
  /\ pc = "fetch"
  /\ LET raw == rawReport(rev, messagesList(ThreadOf(env)))
         m == moneyMath(rev, fields, raw.text, env.table)
     IN IF raw.threw
        THEN /\ pc' = "catch"
             /\ errMsg' = "TypeError"
             /\ UNCHANGED << report, money >>
        ELSE /\ money' = m
             /\ report' = IF m.written THEN "report text, table recomputed"
                          ELSE raw.text
             /\ pc' = "respond"
             /\ UNCHANGED errMsg
  /\ UNCHANGED << inputs, identity, fanout, bundle, payload, uploadFileIds, job,
                  listing, delivery, rerun >>
  /\ UNCHANGED headers
  /\ UNCHANGED peers
  /\ calls' = Issue(calls, Call("messages.list", << >>))

(* ------------------------------------------------------------------ *)
(* Response                                                             *)
(* ------------------------------------------------------------------ *)
SuccessField(r) == IF r = "s3" THEN "reportHtml" ELSE "report"

\* logTraffic({ statusCode: 200, response: { report } }) and
\* res.status(200).json({ report })
RespondSuccess ==
  /\ pc = "respond"
  /\ pc' = "done"
  /\ LogThenSend(Response(200, SuccessField(rev), report),
                 Record(Response(200, SuccessField(rev), report), Snapshot(fields)))
  /\ UNCHANGED << inputs, identity, fanout, bundle, payload, uploadFileIds, job,
                  report, errMsg, listing, money, rerun >>
  /\ UNCHANGED headers
  /\ UNCHANGED peers
  /\ UNCHANGED calls

\* the catch block: logTraffic({ statusCode: 500, response: { error:
\* error.message } }) and res.status(500).json({ error: "Evaluation failed" })
RespondError ==
  /\ pc = "catch"
  /\ pc' = "done"
  /\ LogThenSend(Response(500, "error", ErrorBody(rev)),
                 Record(Response(500, "error", errMsg), CatchSnapshot(rev, fields)))
  /\ UNCHANGED << inputs, identity, fanout, bundle, payload, uploadFileIds, job,
                  report, errMsg, listing, money, rerun >>
  /\ UNCHANGED headers
  /\ UNCHANGED peers
  /\ UNCHANGED calls

Next ==
  \/ CheckMethod
  \/ ParseForm
  \/ StartListingScrape
  \/ ListingScraped
  \/ ResolveIdentity
  \/ ScrapeForPrompt
  \/ BuildUserInput
  \/ StartFanout
  \/ \E b \in Branches : Settle(b)
  \/ \E b \in Branches : TimerFires(b)
  \/ Join
  \/ RecallLookup
  \/ Assemble
  \/ CreateThread
  \/ AttachPhotos
  \/ StartRun
  \/ PollElapsed
  \/ PollRetries
  \/ PollUnbounded
  \/ FetchOutput
  \/ RespondSuccess
  \/ RespondError
  \/ AuditSettles
  \/ SendResponse
  \/ NewYear
  \/ ResolveIdentityAgain

Spec == Init /\ [][Next]_vars

\* every continuation that can run is run by the event loop, and every
\* answer that is on its way arrives
FairSpec == Spec /\ WF_vars(Next)

(***************************************************************************)
(* Two invocations of the part_002 handler served by one module instance.  *)
(* The module-level bindings are the clients and the systemPrimer array;   *)
(* everything else is a local of handler / runFullEvaluationLogic.  Every  *)
(* await is a suspension point, so the steps below interleave freely.      *)
(***************************************************************************)
Invocations == 1..2
PeerRoles == {"Buyer", "Seller"}
PeerNotes == {"clean", "rusty"}
PeerJobs == {"completed", "failed"}

\* a local that has not been assigned
NotYet == [assigned |-> FALSE]

\* part_002:109-185: the module-level array, with its placeholders unfilled
systemPrimerLines == << "ROLE_PLACEHOLDER is the user role", "Money Math Table" >>

replace(line, role) ==
  IF line = "ROLE_PLACEHOLDER is the user role"
    THEN role \o " is the user role" ELSE line

\* an in-place fill of the module-level array (what the code does not do)
mapPrimerInPlace(primer, role) ==
  [filled |-> [k \in DOMAIN primer |-> replace(primer[k], role)],
   primer |-> [k \in DOMAIN primer |-> replace(primer[k], role)]]

\* part_002:254: systemPrimer.map(line => line.replace(...)) builds a new
\* array and leaves the module-level one as it was
mapPrimer(primer, role) ==
  [filled |-> [k \in DOMAIN primer |-> replace(primer[k], role)],
   primer |-> primer]

\* part_002:240-255: the prompt is built from the invocation's own fields
userPromptOf(floppy, lines) ==
  [role |-> floppy.role, notes |-> floppy.conditionNotes, primer |-> lines]

\* the generation service answers from what the thread holds
reportOn(thread) == [about |-> thread]

FreshInvocation(role, notes, outcome) ==
  [at |-> "parse", floppy |-> [role |-> role, conditionNotes |-> notes],
   job |-> outcome, userPrompt |-> NotYet, thread |-> 0, run |-> 0,
   report |-> NotYet, logged |-> NotYet, sent |-> NotYet]

PeersInit ==
  \E r1, r2 \in PeerRoles, n1, n2 \in PeerNotes, j1, j2 \in PeerJobs :
    peers = [primer |-> systemPrimerLines,
             nextThread |-> 1,
             threads |-> << << >>, << >> >>,
             table |-> << >>,
             inv |-> << FreshInvocation(r1, n1, j1),
                        FreshInvocation(r2, n2, j2) >>]

\* the single-invocation variables play no part in this specification
BothInit ==
  /\ rev = "p2a"
  /\ method = "POST" /\ fields = BaseFields /\ files = << >> /\ env = BaseEnv
  /\ Idle
  /\ PeersInit

Me(i) == peers.inv[i]

\* part_002:71-77: await form.parse, then floppy
PeerParse(i) ==
  /\ Me(i).at = "parse"
  /\ peers' = [peers EXCEPT !.inv[i].at = "assemble"]
  /\ UNCHANGED solo

\* part_002:240-258: userPrompt, then await threads.create()
PeerAssemble(i) ==
  /\ Me(i).at = "assemble"
  /\ LET m == mapPrimer(peers.primer, Me(i).floppy.role)
     IN  peers' = [peers EXCEPT
                     !.primer = m.primer,
                     !.nextThread = @ + 1,
                     !.inv[i].userPrompt = userPromptOf(Me(i).floppy, m.filled),
                     !.inv[i].thread = peers.nextThread,
                     !.inv[i].at = "message"]
  /\ UNCHANGED solo

\* part_002:261-264: await messages.create(thread.id, userPrompt)
PeerSendPrompt(i) ==
  /\ Me(i).at = "message"
  /\ peers' = [peers EXCEPT
                 !.threads[Me(i).thread] = Append(@, Message("user", Me(i).userPrompt)),
                 !.inv[i].at = "run"]
  /\ UNCHANGED solo

\* part_002:311-313: await runs.create(thread.id)
PeerStartRun(i) ==
  /\ Me(i).at = "run"
  /\ peers' = [peers EXCEPT !.inv[i].run = Me(i).thread, !.inv[i].at = "poll"]
  /\ UNCHANGED solo

\* part_002:322-328: the poll that sees the job's end
PeerPoll(i) ==
  /\ Me(i).at = "poll"
  /\ IF Me(i).job = "completed"
       THEN peers' = [peers EXCEPT
                        !.threads[Me(i).run] =
                           Append(@, Message("assistant", reportOn(@))),
                        !.inv[i].at = "fetch"]
       ELSE peers' = [peers EXCEPT !.inv[i].at = "catch"]
  /\ UNCHANGED solo

\* part_002:331-333: await messages.list(thread.id), find the assistant's
PeerFetch(i) ==
  /\ Me(i).at = "fetch"
  /\ LET m == FindAssistant(messagesList(peers.threads[Me(i).thread]))
     IN  peers' = [peers EXCEPT
                     !.inv[i].report = IF m.role = "assistant" THEN m.text
                                       ELSE NotYet,
                     !.inv[i].at = "log"]
  /\ UNCHANGED solo

\* part_002:80-89, 95-104 with logTraffic.js:8-12, 23-31: flatRequest is a
\* local of the call; the row goes to the one api_logs table
PeerLog(i) ==
  /\ Me(i).at \in {"log", "catch"}
  /\ LET row == IF Me(i).at = "log"
                  THEN Record(Response(200, "report", Me(i).report), Me(i).floppy)
                  ELSE Record(Response(500, "error", "Assistant run failed"),
                              NoSnapshot)
     IN  peers' = [peers EXCEPT
                     !.table = Append(@, row),
                     !.inv[i].logged = row,
                     !.inv[i].at = IF Me(i).at = "log" THEN "respond"
                                   ELSE "respondError"]
  /\ UNCHANGED solo

\* part_002:90, 105
PeerRespond(i) ==
  /\ Me(i).at \in {"respond", "respondError"}
  /\ peers' = [peers EXCEPT
                 !.inv[i].sent = IF Me(i).at = "respond"
                                   THEN Response(200, "report", Me(i).report)
                                   ELSE Response(500, "error", "Evaluation failed"),
                 !.inv[i].at = "done"]
  /\ UNCHANGED solo

BothNext ==
  \E i \in Invocations :
    \/ PeerParse(i)
    \/ PeerAssemble(i)
    \/ PeerSendPrompt(i)
    \/ PeerStartRun(i)
    \/ PeerPoll(i)
    \/ PeerFetch(i)
    \/ PeerLog(i)
    \/ PeerRespond(i)

BothSpec == BothInit /\ [][BothNext]_vars

(* ------------------------------------------------------------------ *)
(* Properties                                                           *)
(* ------------------------------------------------------------------ *)
EarlyPcs == {"entry", "parse", "start", "listing", "ended"}
Resolved == rev \in IdentityRevs /\ pc \notin EarlyPcs
Joined == rev \in FanoutRevs
          /\ pc \notin EarlyPcs \cup {"scrape", "enrich", "await_all"}
Launched(b) == b # "vinSearch" \/ Truthy(fields.vin)
PhotosAttached == pc \in {"run", "poll", "fetch", "respond"}
                  \/ (pc = "done" /\ run = "created")

\* the largest number of status retrievals a configured budget allows:
\* one per retryDelay within timeoutLimit, the one that crosses it and
\* the first
PollBudget == (timeoutLimit \div retryDelay) + 2

\* C1: once the run is started the poll loop exits within its budget even
\* if the job never completes: the number of status retrievals of an
\* invocation never exceeds the largest configured budget
C1_PollLoopWithinBudget == polls <= PollBudget

\* C2: when the job did not reach completed, the response is a failure
\* (non-200, error field only) and no report text was fetched or returned
C2_NoReportUnlessCompleted ==
  (resp.status # 0 /\ run = "created" /\ runStatus # "completed")
    => /\ resp.status = 500
       /\ resp.field = "error"
       /\ report = ""

C2_Witness ==
  /\ pc = "done" /\ run = "created"
  /\ runStatus \in {"failed", "cancelled", "in_progress"}
  /\ resp.status = 500

\* C3: when the recall branch fails and the retail, auction and VIN
\* searches succeed, the joined bundle holds the retail and auction
\* results and the no-recall placeholder
C3_SiblingDataSurvivesRecallFailure ==
  ( /\ Joined
    /\ env.recall.kind \in {"nonok", "neterr", "timeout"}
    /\ env.retail.kind = "ok" /\ env.auction.kind = "ok"
    /\ env.vinSearch.kind = "ok" )
    => /\ recallData = NoRecall
       /\ retailData = SearchJson(env.retail)
       /\ auctionData = SearchJson(env.auction)

\* C4: whatever the outcomes of the enrichment branches, the pipeline
\* assembles the prompt: an invocation with a failed branch never reaches
\* the catch block or the response without an assembled prompt
EnrichFailed ==
  /\ rev \in FanoutRevs
  /\ \E b \in Branches : Launched(b) /\ env[b].kind # "ok"

C4_EnrichmentFailureAbsorbed ==
  (EnrichFailed /\ pc \in {"catch", "done"}) => payload.built

\* C5: the pipeline is past the join only when no enrichment branch is
\* still in flight
C5_JoinAfterAllSettled ==
  Joined => \A b \in Branches : branch[b] # "inflight"

\* C6: the call of a branch is aborted only by that branch's own timer
C6_AbortOnlyByOwnTimer ==
  \A b \in Branches : aborted[b] => timer[b] = "fired"

C6_Witness ==
  \E b, c \in Branches :
    /\ b # c
    /\ aborted[b] /\ timer[b] = "fired"
    /\ branch[c] = "inflight" /\ timer[c] = "armed" /\ ~ aborted[c]

\* C7: the photos forwarded are the first min(2, k) of the k valid
\* photos, in submission order (filter, then cap); stated for the
\* revisions that validate photos and for uploads that all succeed
FirstValid(photos) == Slice(SelectSeq(photos, isValidPhoto), PhotoCap)

C7_ForwardsFirstTwoValid ==
  (PhotosAttached /\ rev \notin CapOnlyRevs /\ \A i \in 1..PhotoCap : env.upload[i] = "ok")
    => uploadFileIds = [i \in 1..Len(FirstValid(files)) |-> FirstValid(files)[i].idx]

\* C8: every forwarded attachment has size > 0 and an image type, and at
\* most 2 are forwarded
C8_OnlyValidPhotosForwarded ==
  /\ Len(uploadFileIds) <= PhotoCap
  /\ \A i \in 1..Len(uploadFileIds) : isValidPhoto(files[uploadFileIds[i]])

\* C9: without a VIN the resolved year, make and model equal the user's
\* fields exactly, blank fields included
SameValue(a, b) == a = b \/ (~ Truthy(a) /\ ~ Truthy(b))

C9_NoVinIdentityIsUserInput ==
  (Resolved /\ ~ Truthy(fields.vin))
    => /\ SameValue(recallYear, fields.year)
       /\ SameValue(recallMake, fields.make)
       /\ SameValue(recallModel, fields.model)

\* C9, with the defaults: in the revisions that resolve an identity,
\* without a VIN every field the user filled in resolves to the user's value; a blank make or model resolves to a blank value;
\* a blank year resolves to the current calendar year (part_001:60 has no
\* default and leaves it undefined); the prompt carries the resolved values
C9_NoVinIdentityFromUserOrDefault ==
  (Resolved /\ ~ Truthy(fields.vin))
    => /\ Truthy(fields.year) => recallYear = fields.year
       /\ Truthy(fields.make) => recallMake = fields.make
       /\ Truthy(fields.model) => recallModel = fields.model
       /\ ~ Truthy(fields.make) => ~ Truthy(recallMake)
       /\ ~ Truthy(fields.model) => ~ Truthy(recallModel)
       /\ ~ Truthy(fields.year) =>
            recallYear = IF rev = "p1a" THEN Undef ELSE CurrentYear
       /\ payload.built =>
            /\ payload.year = recallYear
            /\ payload.make = recallMake
            /\ payload.model = recallModel

C9_Witness ==
  /\ Resolved /\ ~ Truthy(fields.vin)
  /\ ~ Truthy(fields.year) /\ Truthy(fields.make)
  /\ recallYear = CurrentYear
  /\ payload.built

\* C10: with a VIN whose decode fails, times out or answers a malformed
\* body, nothing is raised and the identity is built from the user's
\* fields alone
UserOnly(user, r, default) ==
  IF Truthy(user) THEN user ELSE IF r = "p1a" THEN Undef ELSE default

C11_UserValueTakesPrecedence ==
  (Resolved /\ errMsg # "VIN decode failed")
    => /\ Truthy(fields.year) => recallYear = fields.year
       /\ Truthy(fields.make) => recallMake = fields.make
       /\ Truthy(fields.model) => recallModel = fields.model
       /\ (~ Truthy(fields.year) /\ Truthy(decodedData.ModelYear))
            => recallYear = decodedData.ModelYear
       /\ (~ Truthy(fields.make) /\ Truthy(decodedData.Make))
            => recallMake = decodedData.Make
       /\ (~ Truthy(fields.model) /\ Truthy(decodedData.Model))
            => recallModel = decodedData.Model

C11_Witness ==
  /\ Resolved /\ Truthy(fields.vin)
  /\ Truthy(decodedData.Make) /\ Truthy(fields.make)
  /\ fields.make # decodedData.Make /\ recallMake = fields.make
  /\ ~ Truthy(fields.year) /\ recallYear = decodedData.ModelYear
  /\ payload.built

\* C12: when neither the user nor the decoder provides year, make or
\* model, the resolved year is the current calendar year, make and model
\* are the empty string, and nothing is raised
NothingProvided ==
  /\ ~ Truthy(fields.year) /\ ~ Truthy(fields.make) /\ ~ Truthy(fields.model)
  /\ ~ Truthy(decodedData.ModelYear) /\ ~ Truthy(decodedData.Make)
  /\ ~ Truthy(decodedData.Model)

C12_DegradedIdentityDefaults ==
  (Resolved /\ NothingProvided)
    => /\ recallYear = CurrentYear
       /\ recallMake = ""
       /\ recallModel = ""
       /\ errMsg # "VIN decode failed"

ListingUrls(notes) == SelectSeq(notes, LAMBDA w : w \in {"copart", "dotcom"})
NotesAreSoleInput ==
  /\ Len(ListingUrls(fields.conditionNotes)) = 1
  /\ nonNoteKeys(fields) = {}
  /\ files = << >>
ShortCircuitTaken == pc = "listing" \/ listing # "none"
PipelineUntouched ==
  /\ decodedData = DecodeFail("none")
  /\ \A b \in Branches : branch[b] = "idle"
  /\ ~ payload.built /\ run = "none" /\ uploadFileIds = << >>

C14_ShortCircuitIffNotesOnly ==
  (rev \in ShortCircuitRevs /\ pc \notin {"entry", "parse", "start"}
   /\ method = "POST" /\ env.parse = "ok")
    => /\ ShortCircuitTaken <=> NotesAreSoleInput
       /\ ShortCircuitTaken
            => /\ PipelineUntouched
               /\ pc \in {"listing", "ended"}
               /\ resp.status # 0 => (resp.status = 200 /\ resp.field = "listing")
       /\ ~ ShortCircuitTaken => pc \notin {"listing", "ended"}

\* C15: an audit write that returns an error or throws changes nothing in
\* what the caller receives: nothing is raised out of logTraffic and
\* the response sent is the one the handler had decided on, a 200 with
\* the report after a completed pipeline and a 500 after a failure
C15_AuditFailureInvisible ==
  /\ out # "unhandled"
  /\ out = "sent" => resp = pending
  /\ (out = "sent" /\ pc = "done")
       => /\ resp.status = 200 <=> errMsg = ""
          /\ resp.status = 200 => resp.value = report
          /\ resp.status # 200 => resp = Response(500, "error", ErrorBody(rev))
  /\ (out = "sent" /\ listing # "none" /\ pc = "ended")
       => resp = Response(200, "listing", listing)

C15_Witness ==
  /\ env.audit \in {"error", "throws"}
  /\ rev \in AuditRevs /\ Len(auditLog) = 1
  /\ out = "sent" /\ pc = "done"
  /\ resp.status = 200 /\ resp.value = report

\* C16: once the handler has decided on its response, the response is
\* eventually sent, however the audit write behaves
C16_ResponseNotBlockedByAudit == (pending.status # 0) ~> (resp.status # 0)

\* C17: an invocation that has answered has handed exactly one record to
\* logTraffic, whatever its outcome; stated for the revisions that log
C17_OneAuditRecordPerInvocation ==
  (rev \in AuditRevs /\ out = "sent") => Len(auditLog) = 1

\* C18: for the Buyer and Flipper roles, when the table figures are
\* extracted, All-In low = asking + repairs low + fees, All-In high =
\* asking + repairs high + fees and savings = asking - max price to pay,
\* for an asking price given as an integer; asking 6000, repairs 800 to
\* 1200 and fees 400 give 7200 to 7600
IntegerPrices == {"6000", "950"}
AskingOf(price) == IF price = "6000" THEN 6000 ELSE 950

C18_MoneyMathRecomputed ==
  (money.computed /\ fields.price \in IntegerPrices)
    => LET askingPrice == AskingOf(fields.price)
       IN /\ fields.role \in {"Buyer", "Flipper"}
          /\ money.asking = askingPrice
          /\ money.allInLow = askingPrice + env.table.repairsLow + env.table.fees
          /\ money.allInHigh = askingPrice + env.table.repairsHigh + env.table.fees
          /\ money.savings = askingPrice - env.table.maxToPay
          /\ (askingPrice = 6000 /\ env.table.repairsLow = 800
              /\ env.table.repairsHigh = 1200 /\ env.table.fees = 400)
               => (money.allInLow = 7200 /\ money.allInHigh = 7600)

C18_Witness ==
  /\ money.computed /\ fields.price = "6000" /\ fields.role = "Flipper"
  /\ env.table.commas /\ env.table.repairsHigh = 1200 /\ env.table.fees = 1500
  /\ money.allInLow = 8300 /\ money.allInHigh = 8700
  /\ resp.status = 200

\* C19: for the Buyer and Flipper roles, a report whose max price to pay
\* exceeds the asking price is not returned as it is: what the caller
\* receives carries a warning
Flagged(r) ==
  r.field # "report" \/ r.value \notin {"report text", "report text, table recomputed"}

C19_OverpayFlagged ==
  ( /\ resp.status = 200 /\ rev \in MoneyMathRevs
    /\ fields.role \in {"Buyer", "Flipper"}
    /\ env.output = "text" /\ env.table.form # "none"
    /\ fields.price \in IntegerPrices
    /\ env.table.maxToPay > AskingOf(fields.price) )
    => Flagged(resp)

\* C20: a job that completed without readable assistant text is never
\* answered with a 200
C20_NoTextIsAnError ==
  ( /\ resp.status # 0 /\ run = "created" /\ runStatus = "completed"
    /\ env.output # "text" )
    => resp.status # 200

\* C21: when the completed job wrote more than one assistant message, the
\* report returned to the caller is the concatenation of all of them in
\* creation order
AssistantTexts(thread) ==
  LET written == SelectSeq(thread, LAMBDA m : m.role = "assistant")
  IN [i \in 1..Len(written) |-> written[i].text]

RECURSIVE Concatenation(_)
Concatenation(texts) ==
  IF texts = << >> THEN ""
  ELSE IF Len(texts) = 1 THEN texts[1]
  ELSE texts[1] \o "\n" \o Concatenation(Tail(texts))

C21_AllAssistantMessagesConcatenated ==
  ( /\ resp.status = 200 /\ run = "created"
    /\ Len(AssistantTexts(ThreadOf(env))) > 1 )
    => resp.value = Concatenation(AssistantTexts(ThreadOf(env)))
\* C22: the role of the request is never changed or re-inferred: the role
\* written into the prompt, the role the post-processor decides on and
\* the role of every audit record that carries the request equal the
\* role the request was submitted with
PostProcessed == money.computed

C22_RoleIsNeverChanged ==
  /\ payload.built => payload.role = fields.role
  /\ PostProcessed => fields.role \in {"Buyer", "Flipper"}
  /\ ( /\ rev \in MoneyMathRevs /\ pc \in {"respond", "done"} /\ errMsg = ""
       /\ env.output = "text" /\ ~ env.addendum /\ env.table.form # "none" )
       => (PostProcessed <=> fields.role \in {"Buyer", "Flipper"})
  /\ \A i \in DOMAIN auditLog :
       auditLog[i].request.recorded => auditLog[i].request.role = fields.role

C22_Witness ==
  /\ rev \in MoneyMathRevs /\ fields.role = "Flipper"
  /\ payload.built /\ payload.role = "Flipper" /\ PostProcessed
  /\ Len(auditLog) = 1 /\ auditLog[1].request.recorded
  /\ auditLog[1].request.role = "Flipper"
  /\ resp.status = 200
\* C23: what the assembler asks for is exclusive by role: for a Buyer no
\* ROI / Max-Bid section, for a Flipper always an ROI / Max-Bid section,
\* for a Seller no Max Price to Pay figure; stated for the revisions whose
\* prompt carries instruction lines
C23_RoleSectionsExclusive ==
  (payload.built /\ rev \in PrimerRevs)
    => /\ fields.role = "Buyer" => "roiMaxBid" \notin payload.requested
       /\ fields.role = "Flipper" => "roiMaxBid" \in payload.requested
       /\ fields.role = "Seller" => "maxPriceToPay" \notin payload.requested
\* C24: the notes are marked as untrusted and are never carried in the
\* message body that carries the instruction lines, and what the
\* instruction lines ask for is determined by the revision and the role
\* alone, whatever the notes are
Kinds(body) == { body[i].kind : i \in DOMAIN body }

C24_NotesSeparateFromInstructions ==
  payload.built
    => /\ \A i \in DOMAIN payload.body :
            payload.body[i].kind = "notes" => payload.body[i].untrusted
       /\ ~ ({"notes", "instructions"} \subseteq Kinds(payload.body))
       /\ payload.requested = Requested(rev, fields.role)
\* C25: a preflight (OPTIONS) request is answered with an empty 200 that
\* carries the cross-origin headers, any method other than OPTIONS and
\* POST with a 405 error, and in both cases no form parsing, external
\* call or generation job is started
C25_PreflightAndMethodCheck ==
  /\ method # "POST"
       => /\ pc \in {"entry", "ended"}
          /\ PipelineUntouched /\ listing = "none"
  /\ (method = "OPTIONS" /\ out = "sent")
       => /\ resp = Response(200, "", "")
          /\ "Access-Control-Allow-Origin" \in headers
  /\ (method \notin {"OPTIONS", "POST"} /\ out = "sent")
       => resp = Response(405, "error", "Method not allowed")
\* C26: the status code of a failure response tells a client-input error
\* (an unparseable submission) from an execution failure (job failed or
\* timed out): the first is answered in the 4xx range, the second in the
\* 5xx range, so the two never share a status code
ClientInputError == method = "POST" /\ env.parse = "error" /\ resp.status # 0
ExecutionFailure ==
  run = "created" /\ runStatus # "completed" /\ resp.status # 0

C26_StatusTellsFailureClasses ==
  /\ ClientInputError => resp.status \in 400..499
  /\ ExecutionFailure => resp.status \in 500..599
\* C27: an invocation that is past the method check sends exactly one
\* response: one is eventually sent, none is sent after it, and it is a
\* 200 with one success field and no error, or a non-200 with the error
\* field alone
PastMethodCheck == pc \notin {"entry", "ended"} \/ (pc = "ended" /\ method = "POST")
ResponseShape ==
  (PastMethodCheck /\ resp.status # 0)
    => IF resp.status = 200
       THEN resp.field \in {"report", "reportHtml", "listing"}
       ELSE resp.field = "error"
NoSecondResponse == resp.status # 0 => resp' = resp

C27_ExactlyOneResponse ==
  /\ []ResponseShape
  /\ [][NoSecondResponse]_vars
  /\ PastMethodCheck ~> (resp.status # 0)
\* C28: every search category holds at most the top 3 results of its
\* query, in ranked order, and a category with no results is written as
\* an explicit "No results found." entry
SearchCategories == {"retail", "auction", "vinSearch"}
Searched(c) == c # "vinSearch" \/ Truthy(fields.vin)
SectionsOf(c) ==
  { i \in DOMAIN payload.sections : payload.sections[i].category = c }
TopOfRanking(items, c) ==
  /\ Len(items) <= ResultCap
  /\ items = Slice(Items(env[c].n), Len(items))
  /\ JoinSucceeds(branch, env) => Len(items) = Min(ResultCap, env[c].n)

C28_TopThreeOrPlaceholder ==
  (payload.built /\ rev \in FanoutRevs)
    => \A c \in SearchCategories :
         /\ \A i \in SectionsOf(c) : TopOfRanking(payload.sections[i].items, c)
         /\ (Searched(c) /\ JoinSucceeds(branch, env) /\ env[c].n = 0)
              => \E i \in SectionsOf(c) : payload.sections[i].placeholder

\* C28, with the optional section: the retail and the auction category
\* are always written, with at most the top 3 results in ranked order or
\* with the "No results found." entry when there is none; the
\* VIN-specific category is written, with at most the top 3 results in
\* ranked order, only when its search returned results, and is left out
\* otherwise
C28_TopThreeOrPlaceholderOrOmitted ==
  (payload.built /\ rev \in FanoutRevs)
    => /\ \A c \in SearchCategories :
            \A i \in SectionsOf(c) :
              /\ TopOfRanking(payload.sections[i].items, c)
              /\ payload.sections[i].placeholder <=> payload.sections[i].items = << >>
       /\ \A c \in {"retail", "auction"} : Cardinality(SectionsOf(c)) = 1
       /\ Cardinality(SectionsOf("vinSearch")) <= 1
       /\ \A i \in SectionsOf("vinSearch") : ~ payload.sections[i].placeholder
       /\ JoinSucceeds(branch, env)
            => (SectionsOf("vinSearch") # {}
                  <=> (Truthy(fields.vin) /\ env.vinSearch.n > 0))

C28_Witness ==
  /\ payload.built /\ rev \in FanoutRevs /\ JoinSucceeds(branch, env)
  /\ env.retail.n = MaxItems
  /\ payload.sections[1].items = << 1, 2, 3 >>
  /\ Truthy(fields.vin) /\ env.vinSearch.n = 0
  /\ Len(payload.sections) = 2
(***************************************************************************)
(* C29.  There is no cross-request mutable state: with two invocations     *)
(* interleaved at their suspension points in any order, each invocation's  *)
(* payload, job and response are what it would produce running alone.      *)
(***************************************************************************)
AlonePrompt(floppy) ==
  userPromptOf(floppy, mapPrimer(systemPrimerLines, floppy.role).filled)

AloneThread(floppy) == << Message("user", AlonePrompt(floppy)) >>

AloneReport(floppy) == reportOn(AloneThread(floppy))

AloneResponse(floppy, outcome) ==
  IF outcome = "completed" THEN Response(200, "report", AloneReport(floppy))
  ELSE Response(500, "error", "Evaluation failed")

AsAlone(i) ==
  LET me == peers.inv[i] IN
  /\ me.userPrompt # NotYet => me.userPrompt = AlonePrompt(me.floppy)
  /\ me.run # 0 =>
       /\ me.run = me.thread
       /\ \A j \in Invocations : j # i => peers.inv[j].thread # me.thread
       /\ peers.threads[me.run][1] = Message("user", AlonePrompt(me.floppy))
  /\ me.report # NotYet => me.report = AloneReport(me.floppy)
  /\ me.sent # NotYet => me.sent = AloneResponse(me.floppy, me.job)
  /\ (me.logged # NotYet /\ me.job = "completed") =>
       me.logged = Record(AloneResponse(me.floppy, me.job), me.floppy)

C29_NoCrossRequestState ==
  peers # NoPeers => \A i \in Invocations : AsAlone(i)

\* both invocations have answered, with different roles and notes, and the
\* second one assembled its prompt while the first was still waiting
C29_Witness ==
  /\ peers # NoPeers
  /\ peers.inv[1].at = "done" /\ peers.inv[2].at = "done"
  /\ peers.inv[1].floppy.role # peers.inv[2].floppy.role
  /\ peers.inv[1].floppy.conditionNotes # peers.inv[2].floppy.conditionNotes
  /\ peers.inv[1].job = "completed" /\ peers.inv[2].job = "completed"
  /\ peers.inv[2].thread = 1
  /\ peers.table[1] = peers.inv[1].logged
(***************************************************************************)
(* C30.  When a status poll observes the job in state failed, the runner   *)
(* aborts at once with an execution failure: no further status poll is     *)
(* made, and the job's messages are never fetched or returned.             *)
(***************************************************************************)
FailedObserved == runStatus = "failed"

\* the loop has been left for the error path, with nothing read from the thread
AbortedOnFailure ==
  /\ pc \notin {"poll", "fetch", "respond"}
  /\ errMsg = "Assistant run failed"
  /\ report = ""
  /\ resp.status \in {0, 500}

NoPollAfterFailure == FailedObserved => polls' = polls

C30_FailedAbortsAtOnce ==
  /\ [](FailedObserved => AbortedOnFailure)
  /\ [][NoPollAfterFailure]_vars
(***************************************************************************)
(* C31.  In the retry-counted runner (maxRetries = 15) one invocation      *)
(* makes at most maxRetries + 1 = 16 status polls; if none of them sees    *)
(* completed the invocation ends with a timeout failure; the retry counter *)
(* grows by exactly one per poll that did not see completed, and never     *)
(* otherwise.                                                              *)
(***************************************************************************)
RetryRunner == rev \in RetryPollRevs

RetryBudgetSpent == polls = 16 /\ runStatus # "completed"

RetryCounterStep ==
  RetryRunner =>
    /\ polls' # polls => polls' = polls + 1
    /\ retries' = IF polls' = polls THEN retries
                  ELSE IF runStatus' = "completed" THEN retries
                  ELSE retries + 1

C31_RetryRunnerBounded ==
  /\ [](RetryRunner =>
          /\ polls <= 16
          /\ RetryBudgetSpent =>
               /\ pc \notin {"poll", "fetch", "respond"}
               /\ errMsg = "Timed out waiting for assistant response"
               /\ report = ""
               /\ resp.status \in {0, 500})
  /\ [][RetryCounterStep]_vars

\* the sixteenth poll has been made without seeing completed and the
\* invocation has answered with the failure
C31_Witness ==
  /\ RetryRunner /\ RetryBudgetSpent /\ retries = 16
  /\ pc = "done" /\ resp.status = 500
(***************************************************************************)
(* C32.  In the elapsed-time runner the completed check comes before the   *)
(* timeout check: a poll that sees completed leads to success even when    *)
(* the elapsed time is already over the 60 s budget, and a timeout failure *)
(* is raised only by a poll that saw a status that is neither completed    *)
(* nor failed.                                                             *)
(***************************************************************************)
ElapsedRunner == rev \in TimePollRevs

TimeoutMessages == {"Timed out waiting for assistant",
                    "Timed out waiting for assistant response"}

CompletedWins ==
  (ElapsedRunner /\ polls' = polls + 1) =>
    /\ runStatus' = "completed" => (pc' = "fetch" /\ errMsg' = errMsg)
    /\ (errMsg' \in TimeoutMessages /\ errMsg' # errMsg) =>
         runStatus' \notin {"completed", "failed"}

C32_CompletedBeforeTimeout ==
  /\ [](ElapsedRunner /\ runStatus = "completed" =>
          /\ errMsg \notin TimeoutMessages
          /\ resp.status \in {0, 200})
  /\ [][CompletedWins]_vars

\* completed was seen by a poll made after the budget had run out, and the
\* invocation answered with the report
C32_Witness ==
  /\ ElapsedRunner /\ runStatus = "completed"
  /\ elapsed > 60000
  /\ resp.status = 200
(***************************************************************************)
(* C33.  In the elapsed-time runner a status other than completed and      *)
(* failed (queued, in_progress, cancelled, expired, requires_action) is    *)
(* treated as still running: the runner keeps polling, and such a job can  *)
(* end, for the caller, only as a timeout failure: never as a success and  *)
(* never before the timeout budget has run out.                            *)
(***************************************************************************)
StillRunning == runStatus \notin {"none", "completed", "failed"}

KeepsPolling ==
  (ElapsedRunner /\ polls' = polls + 1
      /\ runStatus' \notin {"completed", "failed"}) =>
    \/ pc' = "poll"
    \/ pc' = "catch" /\ errMsg' \in TimeoutMessages /\ elapsed' > 60000

C33_OtherStatusesKeepRunning ==
  /\ [](ElapsedRunner /\ StillRunning =>
          /\ report = ""
          /\ resp.status \in {0, 500}
          /\ pc # "poll" =>
               /\ pc \notin {"fetch", "respond"}
               /\ errMsg \in TimeoutMessages
               /\ elapsed > 60000)
  /\ [][KeepsPolling]_vars

\* a cancelled job has been polled until the budget ran out and the
\* invocation answered with the failure
C33_Witness ==
  /\ ElapsedRunner /\ runStatus = "cancelled"
  /\ polls > 1 /\ elapsed > 60000
  /\ resp.status = 500
(***************************************************************************)
(* C34.  Within one invocation the calls to the generation service are     *)
(* strictly ordered: the session is created first; the message with the    *)
(* payload and every photo upload and photo message come before the run    *)
(* is started; no status poll is made before the run is started; and the   *)
(* messages are retrieved only after a poll has seen completed.            *)
(***************************************************************************)
CallsOf(ops) == {i \in DOMAIN calls : calls[i].op \in ops}

Before(early, late) ==
  \A i \in CallsOf(early), j \in CallsOf(late) : i < j

CallOrder ==
  /\ calls # << >> => calls[1].op = "threads.create"
  /\ Cardinality(CallsOf({"threads.create"})) <= 1
  /\ Cardinality(CallsOf({"runs.create"})) <= 1
  /\ Before({"threads.create"}, {"messages.create", "files.create",
                                 "runs.create", "runs.retrieve", "messages.list"})
  /\ Before({"messages.create", "files.create"},
            {"runs.create", "runs.retrieve", "messages.list"})
  /\ CallsOf({"runs.retrieve"}) # {} => CallsOf({"runs.create"}) # {}
  /\ Before({"runs.create"}, {"runs.retrieve", "messages.list"})
  /\ \A i \in CallsOf({"messages.list"}) :
       /\ i = Len(calls) /\ i > 1
       /\ calls[i - 1].op = "runs.retrieve"
       /\ runStatus = "completed"

C34_ServiceCallsOrdered == CallOrder

\* a run with two photos that went through all five kinds of call
C34_Witness ==
  /\ Cardinality(CallsOf({"files.create"})) = 2
  /\ Cardinality(CallsOf({"messages.create"})) >= 2
  /\ Cardinality(CallsOf({"runs.retrieve"})) >= 2
  /\ CallsOf({"messages.list"}) # {}
  /\ resp.status = 200
(***************************************************************************)
(* C35.  Every photo that was uploaded to the generation service is named, *)
(* by its file id, in a message appended to the session before the run     *)
(* starts; no uploaded file is left unattached.                            *)
(***************************************************************************)
UploadedIds ==
  {calls[i].files[1] : i \in {k \in CallsOf({"files.create"}) : calls[k].files # << >>}}

AttachedIds ==
  {id \in UploadedIds :
     \E j \in CallsOf({"messages.create"}) :
       /\ \E k \in DOMAIN calls[j].files : calls[j].files[k] = id
       /\ \A r \in CallsOf({"runs.create"}) : j < r}

RunStarted == CallsOf({"runs.create"}) # {}

C35_UploadedPhotosAttached == RunStarted => UploadedIds = AttachedIds
(***************************************************************************)
(* C36.  The failure of one photo upload is isolated: the error is         *)
(* swallowed for that photo only, the remaining valid photo is still       *)
(* uploaded, the run is still started, and the invocation does not fail    *)
(* because of the upload error.                                            *)
(***************************************************************************)
UploadFailed ==
  \E i \in CallsOf({"files.create"}) : calls[i].files = << >>

ValidOfFirstTwo == SelectSeq(Slice(files, 2), isValidPhoto)

C36_UploadFailureIsolated ==
  UploadFailed =>
    /\ errMsg # "upload failed"
    /\ Cardinality(CallsOf({"files.create"})) = Len(ValidOfFirstTwo)
    /\ pc = "run" \/ RunStarted
(***************************************************************************)
(* C37.  Whenever the recall registry answers a lookup with count > 0, its *)
(* response carries the human-readable summaries and the assembled payload *)
(* has a recall-alert block with one numbered line per recall; a positive  *)
(* count is never replaced by the "No recall alerts found." placeholder    *)
(* and never makes the invocation fail.                                    *)
(***************************************************************************)
RecallsFound ==
  /\ \E n \in 1..MaxItems : env.recall = recallsHandler(n)
  /\ recallData.def = "json"
  /\ recallData.count > 0

C37_PositiveRecallCountIsListed ==
  RecallsFound =>
    /\ recallData.summaries
    /\ payload.built => payload.recallBlock = "alerts"
    /\ ~ (pc \in {"catch", "done"} /\ errMsg = "TypeError"
            /\ recallBlock(rev, recallData) = "throws")
(***************************************************************************)
(* C38.  The status code stored in the audit record of an invocation       *)
(* equals the status code of the response sent for it, the record is       *)
(* written before the response is sent, and a record with statusCode 200   *)
(* is never paired with an error response.                                 *)
(***************************************************************************)
Answered == resp.status # 0

RecordMatchesResponse ==
  \A i \in DOMAIN auditLog :
    /\ auditLog[i].response.status = pending.status
    /\ Answered =>
         /\ auditLog[i].response.status = resp.status
         /\ auditLog[i].response.status = 200 => resp.field # "error"

\* the step that sends the response finds the record already written
RecordComesFirst ==
  (~ Answered /\ Answered' /\ auditLog' # << >>) => auditLog # << >>

C38_AuditStatusIsResponseStatus ==
  /\ []RecordMatchesResponse
  /\ [][RecordComesFirst]_vars

\* a failed evaluation: the record says 500 and so does the response
C38_Witness ==
  /\ pc = "done" /\ out = "sent"
  /\ Len(auditLog) = 1
  /\ auditLog[1].response.status = 500
  /\ resp.status = 500
(***************************************************************************)
(* C39.  The post-processor leaves the generated report unchanged whenever *)
(* the role is not exactly Buyer or Flipper (Seller, Premium, none) or the *)
(* money-math figures cannot be extracted from the report: the text        *)
(* returned to the caller is then the generation service's output.         *)
(***************************************************************************)
PostProcessorRan ==
  rev \in MoneyMathRevs /\ resp.status = 200 /\ env.output = "text"

NothingToRecompute ==
  \/ fields.role \notin {"Buyer", "Flipper"}
  \/ env.table.form = "none"

Generated == rawReport(rev, messagesList(ThreadOf(env))).text

C39_ReportUnchangedOtherwise ==
  (PostProcessorRan /\ NothingToRecompute) =>
    /\ resp.field = "report"
    /\ resp.value = Generated
    /\ report = Generated
    /\ ~ money.computed

\* a Seller whose report has the table under the heading the pattern
\* looks for, returned as generated
C39_Witness ==
  /\ PostProcessorRan
  /\ fields.role = "Seller" /\ env.table.form = "numbered"
  /\ resp.value = "report text"

(***************************************************************************)
(* C40.  For the Buyer and Flipper roles, whenever the post-processor      *)
(* extracts the figures and recomputes the money-math table, the report    *)
(* returned to the caller has the recomputed table in place of the         *)
(* generated one, for a report that follows the section numbering the      *)
(* assembled prompt mandates.                                              *)
(***************************************************************************)
FollowsMandatedNumbering == env.table.form = "mandated"

C40_RecomputedTableReturned ==
  ( /\ PostProcessorRan
    /\ fields.role \in {"Buyer", "Flipper"}
    /\ money.computed
    /\ FollowsMandatedNumbering ) =>
      resp.value = "report text, table recomputed"
====
